---- MODULE Spec2Model ----
(***************************************************************************)
(* A model of txtpand: the tokenizer, the three-tier matcher, the bigram   *)
(* context resolver, the scorer, the Viterbi segmenter and the Expander    *)
(* that sequences them.                                                    *)
(*                                                                         *)
(* Strings are sequences of one-character strings.  A Python dict is a     *)
(* sequence of [k, v] records with distinct keys, in insertion order.      *)
(* A float score x is the integer x * U (matcher, context, scorer) or      *)
(* x * SU (segmenter); U and SU are chosen so that every quotient the      *)
(* code forms is an exact integer.  The inputs are chosen so that the      *)
(* code's floating-point comparisons agree with the exact ones.            *)
(***************************************************************************)
EXTENDS Integers, Sequences, FiniteSets, TLC

VARIABLES
    custom_words,      \* config.custom_words
    abbreviations,     \* config.abbreviations
    cfg,               \* the scalar fields of TxtpandConfig
    ex_built,          \* Expander._built
    matcher,           \* the Matcher: _words, _abbreviations, the trie, _max_freq, _built
    segmenter,         \* the Segmenter: _words, _max_freq, _max_bigram
    args,              \* the arguments the caller is going to pass
    call,              \* the last call made
    ret,               \* what that call returned
    llm_fallback,      \* Expander._llm_fallback
    build_pc,          \* where a rebuild running in another thread stands
    corrections,       \* UserModel._corrections
    recorded           \* the corrections recorded since the last clear, in order

vars == <<custom_words, abbreviations, cfg, ex_built, matcher, segmenter,
          args, call, ret, llm_fallback, build_pc, corrections, recorded>>

----------------------------------------------------------------------------
(* Bounds *)

MaxTokenLen == 3
MaxEditLen == 4
MaxBudget == 3
MaxCands == 3
MaxSegLen == 4
MaxUserCalls == 3
MaxTokenizePieces == 4
MaxPieces == 3

----------------------------------------------------------------------------
(* Generic helpers *)

Max2(a, b) == IF a >= b THEN a ELSE b
Min2(a, b) == IF a <= b THEN a ELSE b
Abs(x) == IF x < 0 THEN 0 - x ELSE x
None == <<>>
Some(x) == <<x>>

RECURSIVE Gcd(_, _)
Gcd(a, b) == IF b = 0 THEN a ELSE Gcd(b, a % b)

RECURSIVE LcmUpTo(_)
LcmUpTo(n) == IF n <= 1 THEN 1 ELSE (LcmUpTo(n - 1) * n) \div Gcd(LcmUpTo(n - 1), n)

SeqsUpTo(S, n) == UNION {[1..k -> S] : k \in 0..n}

RECURSIVE Concat(_)
Concat(ss) == IF ss = <<>> THEN <<>> ELSE Head(ss) \o Concat(Tail(ss))

Take(s, k) == SubSeq(s, 1, Min2(k, Len(s)))

----------------------------------------------------------------------------
(* Characters and str methods *)

LowerSeq == <<"a","b","c","d","e","f","g","h","i","j","k","l","m",
              "n","o","p","q","r","s","t","u","v","w","x","y","z">>
UpperSeq == <<"A","B","C","D","E","F","G","H","I","J","K","L","M",
              "N","O","P","Q","R","S","T","U","V","W","X","Y","Z">>
LowerChars == {LowerSeq[i] : i \in 1..26}
UpperChars == {UpperSeq[i] : i \in 1..26}
Letters == LowerChars \cup UpperChars
Digits == {"0","1","2","3","4","5","6","7","8","9"}
Spaces == {" ", "\t", "\n", "\r", "\f"}

LowerChar(c) ==
    IF c \in UpperChars THEN LowerSeq[CHOOSE i \in 1..26 : UpperSeq[i] = c] ELSE c

Lower(s) == [i \in 1..Len(s) |-> LowerChar(s[i])]

IsAlpha(s) == Len(s) > 0 /\ \A i \in 1..Len(s) : s[i] \in Letters
IsAlnum(s) == Len(s) > 0 /\ \A i \in 1..Len(s) : s[i] \in Letters \cup Digits

RECURSIVE LStrip(_)
LStrip(s) == IF s # <<>> /\ Head(s) \in Spaces THEN LStrip(Tail(s)) ELSE s

RECURSIVE RStrip(_)
RStrip(s) ==
    IF s # <<>> /\ s[Len(s)] \in Spaces THEN RStrip(SubSeq(s, 1, Len(s) - 1)) ELSE s

Strip(s) == RStrip(LStrip(s))

StartsWith(w, p) == Len(p) <= Len(w) /\ SubSeq(w, 1, Len(p)) = p

----------------------------------------------------------------------------
(* dict *)

HasKey(d, key) == \E i \in 1..Len(d) : d[i].k = key
Get(d, key) == d[CHOOSE i \in 1..Len(d) : d[i].k = key].v
GetOr(d, key, dflt) == IF HasKey(d, key) THEN Get(d, key) ELSE dflt
Keys(d) == {d[i].k : i \in 1..Len(d)}

DictSet(d, key, val) ==
    IF HasKey(d, key)
    THEN [i \in 1..Len(d) |-> IF d[i].k = key THEN [k |-> key, v |-> val] ELSE d[i]]
    ELSE Append(d, [k |-> key, v |-> val])

RECURSIVE DictUpdate(_, _)
DictUpdate(d, e) ==
    IF e = <<>> THEN d ELSE DictUpdate(DictSet(d, Head(e).k, Head(e).v), Tail(e))

RECURSIVE MaxValue(_)
MaxValue(d) ==
    IF Len(d) = 1 THEN d[1].v ELSE Max2(d[1].v, MaxValue(Tail(d)))

----------------------------------------------------------------------------
(* The bundled corpus: words.json and bigrams.json, written by            *)
(* build_corpus.py sorted by descending score, then by key.               *)

get_words ==
    << [k |-> <<"a">>, v |-> 6],
       [k |-> <<"a","b">>, v |-> 4],
       [k |-> <<"c","a","b">>, v |-> 4],
       [k |-> <<"b","a">>, v |-> 3],
       [k |-> <<"b","c">>, v |-> 2],
       [k |-> <<"c","a","a">>, v |-> 2] >>

get_bigrams ==
    << [k |-> <<"a","_","c","a","b">>, v |-> 4],
       [k |-> <<"a","b","_","a">>, v |-> 2],
       [k |-> <<"a","_","b","a">>, v |-> 2] >>

----------------------------------------------------------------------------
(* Inputs the callers may supply *)

CustomWordChoices ==
    { <<>>,
      << [k |-> <<"a","b","b">>, v |-> 12] >>,
      << [k |-> <<"a">>, v |-> 2], [k |-> <<"k","1">>, v |-> 3] >>,
      << [k |-> <<"A","b">>, v |-> 3] >> }

AbbreviationChoices ==
    { <<>>,
      << [k |-> <<"k","1">>, v |-> <<"c","a","b">>] >>,
      << [k |-> <<"a","b">>, v |-> <<"c","a","b">>] >>,
      << [k |-> <<"K","1">>, v |-> <<"b","a">>], [k |-> <<"c","a">>, v |-> <<"z","z">>] >> }

(* The arguments of Matcher.build *)
ExtraWordChoices == { <<>>, << [k |-> <<"c","c">>, v |-> 4] >> }
ExtraAbbreviationChoices == { <<>>, << [k |-> <<"b","a">>, v |-> <<"a","b">>] >> }

TokenChars == {"a", "b", "c", "A"}
Tokens == SeqsUpTo(TokenChars, MaxTokenLen) \cup {<<"k","1">>, <<"K","1">>}

WordChoices == CustomWordChoices \cup ExtraWordChoices
AllWordKeys == Keys(get_words) \cup UNION {Keys(cw) : cw \in WordChoices}
AllFreqs == {get_words[i].v : i \in 1..Len(get_words)}
            \cup UNION {{cw[i].v : i \in 1..Len(cw)} : cw \in WordChoices}
            \cup {3}
AllBigramScores == {get_bigrams[i].v : i \in 1..Len(get_bigrams)}

MaxWordLen == CHOOSE n \in 0..64 :
                /\ \A w \in AllWordKeys : Len(w) <= n
                /\ \E w \in AllWordKeys : Len(w) = n

RECURSIVE LcmOfSet(_)
LcmOfSet(S) ==
    IF S = {} THEN 1
    ELSE LET x == CHOOSE y \in S : TRUE
             r == LcmOfSet(S \ {x})
         IN (r * x) \div Gcd(r, x)

(* One score unit: 1.0 is U.  Every quotient by a word length, a length   *)
(* sum, a frequency maximum or a bigram maximum below is exact.           *)
U == 2000 * LcmOfSet(AllFreqs) * LcmOfSet(AllBigramScores)
          * LcmUpTo(MaxTokenLen + MaxWordLen)

DefaultConfig ==
    [ weight_prefix |-> 35, weight_edit |-> 25,
      weight_frequency |-> 25, weight_length |-> 15,
      context_bonus_weight |-> 20,
      ambiguity_margin |-> 15,
      min_confidence |-> 20,
      max_edit_distance_ratio |-> 6,
      max_word_length |-> 20,
      llm_enabled |-> FALSE,
      passthrough_known_words |-> TRUE,
      min_fuzzy_length |-> 2,
      top_k_prefix |-> 10,
      top_k_fuzzy |-> 10,
      rapidfuzz |-> FALSE ]

(* weight * x for a weight given in hundredths *)
Pct(w, x) == (x \div 100) * w

----------------------------------------------------------------------------
(* Stable sort, descending by key: Python's sort(key=lambda c: -c.key) *)

(* InsertDesc placing x before the entries of equal key: an unstable sort *)
RECURSIVE InsertDescTiesFirst(_, _)
InsertDescTiesFirst(sorted, x) ==
    IF sorted = <<>> THEN <<x>>
    ELSE IF Head(sorted).key <= x.key THEN <<x>> \o sorted
    ELSE <<Head(sorted)>> \o InsertDescTiesFirst(Tail(sorted), x)

RECURSIVE InsertDesc(_, _)
InsertDesc(sorted, x) ==
    IF sorted = <<>> THEN <<x>>
    ELSE IF Head(sorted).key < x.key THEN <<x>> \o sorted
    ELSE <<Head(sorted)>> \o InsertDesc(Tail(sorted), x)

RECURSIVE SortDescKeyed(_, _)
SortDescKeyed(acc, rest) ==
    IF rest = <<>> THEN acc ELSE SortDescKeyed(InsertDesc(acc, Head(rest)), Tail(rest))

Items(sorted) == [i \in 1..Len(sorted) |-> sorted[i].item]

SortByScore(cs) ==
    Items(SortDescKeyed(<<>>,
        [i \in 1..Len(cs) |-> [key |-> cs[i].score, item |-> cs[i]]]))

SortByFreq(es) ==
    Items(SortDescKeyed(<<>>,
        [i \in 1..Len(es) |-> [key |-> es[i].v, item |-> es[i]]]))

----------------------------------------------------------------------------
(* An optional value (x or None) is <<x>> or <<>>. *)

(* Matcher *)

ScoredCandidate(word, score, tier, ps, es, fr, lp) ==
    [ word |-> word, score |-> score, tier |-> tier,
      prefix_score |-> ps, edit_similarity |-> es,
      frequency |-> fr, length_penalty |-> lp, context_bonus |-> 0 ]

Build(extra_words, abbrs, cw, cab) ==
    LET words == DictUpdate(DictUpdate(get_words, extra_words), cw)
    IN [ words |-> words,
         abbr |-> DictUpdate(DictUpdate(<<>>, abbrs), cab),
         trie |-> words,
         max_freq |-> IF words # <<>> THEN MaxValue(words) ELSE 7,
         built |-> TRUE ]

(* The children of the trie node reached by p, in the order _trie_insert  *)
(* created them.                                                          *)
RECURSIVE ChildChars(_, _, _)
ChildChars(t, p, acc) ==
    IF t = <<>> THEN acc
    ELSE LET w == Head(t).k
         IN IF StartsWith(w, p) /\ Len(w) > Len(p)
                  /\ ~ \E i \in 1..Len(acc) : acc[i] = w[Len(p) + 1]
            THEN ChildChars(Tail(t), p, Append(acc, w[Len(p) + 1]))
            ELSE ChildChars(Tail(t), p, acc)

(* The stack walk below the node reached by p: the node's own word, then  *)
(* the subtrees, last-created child first.                                *)
RECURSIVE TrieCollect(_, _)
TrieCollect(t, p) ==
    LET own == IF HasKey(t, p) THEN << [k |-> p, v |-> Get(t, p)] >> ELSE <<>>
        ch == ChildChars(t, p, <<>>)
        n == Len(ch)
    IN own \o Concat([i \in 1..n |-> TrieCollect(t, Append(p, ch[n + 1 - i]))])

_trie_prefix_search(t, prefix, top_k) ==
    IF ~ \E i \in 1..Len(t) : StartsWith(t[i].k, prefix)
    THEN <<>>
    ELSE Take(SortByFreq(TrieCollect(t, prefix)), top_k)

is_known_word(words, token) == HasKey(words, Lower(token))

_length_penalty(token, word) ==
    LET ratio == IF word # <<>> THEN (U \div Len(word)) * Len(token) ELSE 0
        d == Abs((U \div 10) * 6 - ratio)
    IN IF (U \div 10) * 4 <= ratio /\ ratio <= U
       THEN U - d \div 2
       ELSE Max2(0, U - d)

RECURSIVE CommonPrefix(_, _)
CommonPrefix(a, b) ==
    IF a # <<>> /\ b # <<>> /\ Head(a) = Head(b)
    THEN 1 + CommonPrefix(Tail(a), Tail(b)) ELSE 0

_prefix_overlap(token, word) ==
    IF word # <<>> THEN (U \div Len(word)) * CommonPrefix(token, word) ELSE 0

RECURSIVE BuildRow(_, _, _, _, _)
BuildRow(curr, prev, c1, s2, j) ==
    IF j > Len(s2) THEN curr
    ELSE LET cost == IF c1 = s2[j] THEN 0 ELSE 1
             x == Min2(Min2(curr[j] + 1, prev[j + 1] + 1), prev[j] + cost)
         IN BuildRow(Append(curr, x), prev, c1, s2, j + 1)

RECURSIVE SeqMin(_)
SeqMin(s) == IF Len(s) = 1 THEN s[1] ELSE Min2(s[1], SeqMin(Tail(s)))

RECURSIVE EditRows(_, _, _, _, _)
EditRows(prev, s1, s2, i, max_dist) ==
    IF i > Len(s1) THEN prev[Len(s2) + 1]
    ELSE LET curr == BuildRow(<<i>>, prev, s1[i], s2, 1)
         IN IF SeqMin(curr) > max_dist THEN max_dist + 1
            ELSE EditRows(curr, s1, s2, i + 1, max_dist)

(* _edit_distance giving up when the lengths differ by max_dist already *)
_edit_distance_early(s1, s2, max_dist) ==
    IF Abs(Len(s1) - Len(s2)) >= max_dist THEN max_dist + 1
    ELSE EditRows([j \in 1..(Len(s2) + 1) |-> j - 1], s1, s2, 1, max_dist)

_edit_distance(s1, s2, max_dist) ==
    IF Abs(Len(s1) - Len(s2)) > max_dist THEN max_dist + 1
    ELSE EditRows([j \in 1..(Len(s2) + 1) |-> j - 1], s1, s2, 1, max_dist)

(* weight_prefix * prefix_score + weight_edit * edit_sim                   *)
(*   + weight_frequency * norm_freq + weight_length * length_penalty      *)
Composite(c, ps, es, fr, lp) ==
    Pct(c.weight_prefix, ps) + Pct(c.weight_edit, es)
        + Pct(c.weight_frequency, fr) + Pct(c.weight_length, lp)

FuzzyCandidate(c, max_freq, token, word, freq, edit_sim) ==
    LET ps == _prefix_overlap(token, word)
        lp == _length_penalty(token, word)
        nf == (U \div max_freq) * freq
    IN ScoredCandidate(word, Composite(c, ps, edit_sim, nf, lp), "FUZZY",
                       ps, edit_sim, nf, lp)

RECURSIVE SimpleFuzzyScan(_, _, _, _, _)
SimpleFuzzyScan(c, max_freq, rest, token, max_dist) ==
    IF rest = <<>> THEN <<>>
    ELSE LET word == Head(rest).k
             freq == Head(rest).v
             more == SimpleFuzzyScan(c, max_freq, Tail(rest), token, max_dist)
         IN IF Abs(Len(word) - Len(token)) > max_dist THEN more
            ELSE IF word = <<>> \/ word[1] # token[1] THEN more
            ELSE LET dist == _edit_distance(token, word, max_dist)
                     max_len == Max2(Len(token), Len(word))
                     edit_sim == U - (U \div max_len) * dist
                 IN IF dist <= max_dist
                    THEN <<FuzzyCandidate(c, max_freq, token, word, freq, edit_sim)>>
                             \o more
                    ELSE more

_simple_fuzzy(c, words, max_freq, token, max_dist) ==
    Take(SortByScore(SimpleFuzzyScan(c, max_freq, words, token, max_dist)),
         c.top_k_fuzzy)

RECURSIVE Lcs(_, _)
Lcs(a, b) ==
    IF a = <<>> \/ b = <<>> THEN 0
    ELSE IF Head(a) = Head(b) THEN 1 + Lcs(Tail(a), Tail(b))
    ELSE Max2(Lcs(Tail(a), b), Lcs(a, Tail(b)))

(* rapidfuzz.fuzz.ratio / 100: the normalized indel similarity            *)
FuzzRatio(a, b) ==
    IF Len(a) + Len(b) = 0 THEN U ELSE (U \div (Len(a) + Len(b))) * 2 * Lcs(a, b)

(* process.extract(..., scorer=fuzz.ratio, limit=top_k_fuzzy,             *)
(* score_cutoff=40): the choices scoring at least 40, best first.         *)
RapidFuzzy(c, words, max_freq, token) ==
    LET keyed == [i \in 1..Len(words) |->
                    [key |-> FuzzRatio(token, words[i].k), item |-> words[i]]]
        kept == SelectSeq(keyed, LAMBDA e : e.key >= (U \div 100) * 40)
        results == Take(SortDescKeyed(<<>>, kept), c.top_k_fuzzy)
        used == SelectSeq(results, LAMBDA e : e.item.k # token)
    IN [i \in 1..Len(used) |->
          FuzzyCandidate(c, max_freq, token, used[i].item.k, used[i].item.v,
                         used[i].key)]

_fuzzy_match(c, words, max_freq, token) ==
    LET max_dist == Max2(1, (Len(token) * c.max_edit_distance_ratio) \div 10)
    IN IF c.rapidfuzz
       THEN RapidFuzzy(c, words, max_freq, token)
       ELSE _simple_fuzzy(c, words, max_freq, token, max_dist)

RECURSIVE PrefixCandidates(_, _, _, _)
PrefixCandidates(c, max_freq, results, token_lower) ==
    IF results = <<>> THEN <<>>
    ELSE LET word == Head(results).k
             freq == Head(results).v
             more == PrefixCandidates(c, max_freq, Tail(results), token_lower)
         IN IF word = token_lower THEN more
            ELSE LET ps == (U \div Len(word)) * Len(token_lower)
                     lp == _length_penalty(token_lower, word)
                     nf == (U \div max_freq) * freq
                 IN <<ScoredCandidate(word, Composite(c, ps, U, nf, lp), "PREFIX",
                                      ps, U, nf, lp)>> \o more

(* Dedup keeping for each word the candidate found last *)
RECURSIVE DedupKeepLast(_, _)
DedupKeepLast(seen, cands) ==
    IF cands = <<>> THEN seen
    ELSE DedupKeepLast(DictSet(seen, Head(cands).word, Head(cands)), Tail(cands))

(* seen[c.word] = c when the word is new or c scores higher; a replaced   *)
(* entry keeps its place in the dict.                                     *)
RECURSIVE Dedup(_, _)
Dedup(seen, cands) ==
    IF cands = <<>> THEN seen
    ELSE LET c == Head(cands)
         IN IF ~ HasKey(seen, c.word) \/ c.score > Get(seen, c.word).score
            THEN Dedup(DictSet(seen, c.word, c), Tail(cands))
            ELSE Dedup(seen, Tail(cands))

DictValues(d) == [i \in 1..Len(d) |-> d[i].v]

(* ExactCandidate carrying the tier of an abbreviation override *)
ExactCandidateAsOverride(m, token_lower) ==
    ScoredCandidate(token_lower, U, "EXACT", U, U,
                    (U \div m.max_freq) * Get(m.words, token_lower), U)

(* Tier 1: the single candidate for a token that is itself a word *)
ExactCandidate(m, token_lower) ==
    ScoredCandidate(token_lower, U, "PASSTHROUGH", U, U,
                    (U \div m.max_freq) * Get(m.words, token_lower), U)

(* The candidates of the prefix and fuzzy tiers, in the order found *)
Discovered(c, m, token_lower) ==
    LET prefix_results == _trie_prefix_search(m.trie, token_lower, c.top_k_prefix)
        pc == PrefixCandidates(c, m.max_freq, prefix_results, token_lower)
        fc == IF Len(token_lower) >= c.min_fuzzy_length
              THEN _fuzzy_match(c, m.words, m.max_freq, token_lower)
              ELSE <<>>
    IN pc \o fc

(* Matcher.match on a built matcher m = [words, abbr, trie, max_freq]     *)
match(c, m, token) ==
    LET token_lower == Lower(token)
    IN IF HasKey(m.abbr, token_lower)
       THEN LET target == Get(m.abbr, token_lower)
                freq == GetOr(m.words, target, 3)
            IN <<ScoredCandidate(target, U, "EXACT", U, U,
                                 (U \div m.max_freq) * freq, U)>>
       ELSE IF HasKey(m.words, token_lower)
       THEN <<ExactCandidate(m, token_lower)>>
       ELSE SortByScore(DictValues(Dedup(<<>>, Discovered(c, m, token_lower))))

----------------------------------------------------------------------------
(* ContextResolver *)

(* RescoreOne putting the weighted bonus in the place of the score *)
RescoreOneBonusOnly(c, cand, prev_word, next_word) ==
    LET max_bigram == IF get_bigrams # <<>> THEN MaxValue(get_bigrams) ELSE 1
        k1 == Lower(prev_word[1]) \o <<"_">> \o cand.word
        k2 == cand.word \o <<"_">> \o Lower(next_word[1])
        b1 == IF prev_word # None /\ prev_word[1] # <<>> /\ HasKey(get_bigrams, k1)
              THEN (U \div max_bigram) * Get(get_bigrams, k1) ELSE 0
        b2 == IF next_word # None /\ next_word[1] # <<>> /\ HasKey(get_bigrams, k2)
              THEN (U \div max_bigram) * Get(get_bigrams, k2) ELSE 0
        bonus == b1 + b2
    IN IF bonus > 0
       THEN [cand EXCEPT !.score = Pct(c.context_bonus_weight, bonus),
                         !.context_bonus = bonus]
       ELSE cand

RescoreOne(c, cand, prev_word, next_word) ==
    LET max_bigram == IF get_bigrams # <<>> THEN MaxValue(get_bigrams) ELSE 1
        k1 == Lower(prev_word[1]) \o <<"_">> \o cand.word
        k2 == cand.word \o <<"_">> \o Lower(next_word[1])
        b1 == IF prev_word # None /\ prev_word[1] # <<>> /\ HasKey(get_bigrams, k1)
              THEN (U \div max_bigram) * Get(get_bigrams, k1) ELSE 0
        b2 == IF next_word # None /\ next_word[1] # <<>> /\ HasKey(get_bigrams, k2)
              THEN (U \div max_bigram) * Get(get_bigrams, k2) ELSE 0
        bonus == b1 + b2
    IN IF bonus > 0
       THEN [cand EXCEPT !.score = cand.score + Pct(c.context_bonus_weight, bonus),
                         !.context_bonus = bonus]
       ELSE cand

rescore(c, candidates, prev_word, next_word) ==
    IF candidates = <<>> \/ (prev_word = None /\ next_word = None)
    THEN candidates
    ELSE SortByScore([i \in 1..Len(candidates) |->
                        RescoreOne(c, candidates[i], prev_word, next_word)])

----------------------------------------------------------------------------
(* Scorer *)

(* pick_best rejecting a top score equal to min_confidence *)
pick_best_reject_equal(c, candidates) ==
    IF candidates = <<>> THEN [best |-> None, ambiguous |-> FALSE]
    ELSE LET top == candidates[1]
         IN IF top.score <= (U \div 100) * c.min_confidence
            THEN [best |-> None, ambiguous |-> TRUE]
            ELSE IF Len(candidates) >= 2
                    /\ top.score - candidates[2].score
                         < (U \div 100) * c.ambiguity_margin
            THEN [best |-> Some(top), ambiguous |-> TRUE]
            ELSE [best |-> Some(top), ambiguous |-> FALSE]

(* pick_best counting a gap equal to ambiguity_margin as ambiguous *)
pick_best_margin_inclusive(c, candidates) ==
    IF candidates = <<>> THEN [best |-> None, ambiguous |-> FALSE]
    ELSE LET top == candidates[1]
         IN IF top.score < (U \div 100) * c.min_confidence
            THEN [best |-> None, ambiguous |-> TRUE]
            ELSE IF Len(candidates) >= 2
                    /\ top.score - candidates[2].score
                         <= (U \div 100) * c.ambiguity_margin
            THEN [best |-> Some(top), ambiguous |-> TRUE]
            ELSE [best |-> Some(top), ambiguous |-> FALSE]

pick_best(c, candidates) ==
    IF candidates = <<>> THEN [best |-> None, ambiguous |-> FALSE]
    ELSE LET top == candidates[1]
         IN IF top.score < (U \div 100) * c.min_confidence
            THEN [best |-> None, ambiguous |-> TRUE]
            ELSE IF Len(candidates) >= 2
                    /\ top.score - candidates[2].score
                         < (U \div 100) * c.ambiguity_margin
            THEN [best |-> Some(top), ambiguous |-> TRUE]
            ELSE [best |-> Some(top), ambiguous |-> FALSE]

----------------------------------------------------------------------------
(* Segmenter.  One segmenter score unit: 1.0 is SU. *)

SU == 200 * LcmOfSet(AllFreqs) * LcmOfSet(AllBigramScores) * LcmUpTo(MaxWordLen)

_ABBREV_PENALTY == 4
_EXACT_LENGTH_BONUS == 8
_ABBREV_LENGTH_BONUS == 15
_SHORT_PENALTY == 3
NoMatchScore == 0 - 999 * SU

(* Segmenter._load, run on a segmenter that has not loaded yet *)
_load(cw) ==
    LET words == IF cw # <<>> THEN DictUpdate(get_words, cw) ELSE get_words
    IN [ loaded |-> TRUE,
         words |-> words,
         max_freq |-> IF words # <<>> THEN MaxValue(words) ELSE 7,
         max_bigram |-> IF get_bigrams # <<>> THEN MaxValue(get_bigrams) ELSE 7 ]

(* The best strict-prefix match, scanning the words in dict order and     *)
(* replacing the best only on a strictly greater score.                   *)
RECURSIVE BestPrefix(_, _, _, _)
BestPrefix(sg, rest, substr, acc) ==
    IF rest = <<>> THEN acc
    ELSE LET word == Head(rest).k
             freq == Head(rest).v
         IN IF StartsWith(word, substr) /\ Len(word) > Len(substr)
            THEN LET score ==
                       (SU \div (sg.max_freq * 10 * Len(word)))
                            * _ABBREV_PENALTY * freq * Len(substr)
                       + Len(substr) * (SU \div 100) * _ABBREV_LENGTH_BONUS
                 IN IF score > acc.score
                    THEN BestPrefix(sg, Tail(rest), substr,
                                    [score |-> score, word |-> Some(word)])
                    ELSE BestPrefix(sg, Tail(rest), substr, acc)
            ELSE BestPrefix(sg, Tail(rest), substr, acc)

(* _score_substring without the single-character fallback *)
_score_substring_no_fallback(sg, substr) ==
    IF HasKey(sg.words, substr)
    THEN [ score |-> (SU \div sg.max_freq) * Get(sg.words, substr)
                       + Len(substr) * (SU \div 10) * _EXACT_LENGTH_BONUS,
           word |-> Some(substr) ]
    ELSE LET bp == BestPrefix(sg, sg.words, substr,
                              [score |-> NoMatchScore, word |-> None])
         IN IF bp.word # None
            THEN IF Len(substr) = 1 /\ ~ HasKey(sg.words, substr)
                 THEN [bp EXCEPT !.score = bp.score - _SHORT_PENALTY * SU]
                 ELSE bp
            ELSE [score |-> NoMatchScore, word |-> None]

_score_substring(sg, substr) ==
    IF HasKey(sg.words, substr)
    THEN [ score |-> (SU \div sg.max_freq) * Get(sg.words, substr)
                       + Len(substr) * (SU \div 10) * _EXACT_LENGTH_BONUS,
           word |-> Some(substr) ]
    ELSE LET bp == BestPrefix(sg, sg.words, substr,
                              [score |-> NoMatchScore, word |-> None])
         IN IF bp.word # None
            THEN IF Len(substr) = 1 /\ ~ HasKey(sg.words, substr)
                 THEN [bp EXCEPT !.score = bp.score - _SHORT_PENALTY * SU]
                 ELSE bp
            ELSE IF Len(substr) = 1
            THEN [score |-> 0 - 2 * SU, word |-> None]
            ELSE [score |-> NoMatchScore, word |-> None]

(* The inner loop of the DP at position i: lengths 1..min(max_word_len, i) *)
(* in ascending order; cur is best[i] so far.  best[p + 1] is best[p].    *)
(* bigram_bonus for the key prev_word _ matched_word *)
BigramBonus(sg, bkey) ==
    IF HasKey(get_bigrams, bkey)
    THEN (SU \div (2 * sg.max_bigram)) * Get(get_bigrams, bkey)
    ELSE 0

(* SegStep taking no substring of a negative score *)
SegStepNoNegative(sg, substr, j, prev_entry, sc, cur) ==
    IF sc.score < 0 THEN cur
    ELSE LET matched == sc.word # None /\ sc.word[1] # <<>>
             total == prev_entry.score + sc.score
                        + (IF prev_entry.word # <<>> /\ matched
                           THEN BigramBonus(sg, prev_entry.word \o <<"_">> \o sc.word[1])
                           ELSE 0)
         IN IF cur = None \/ total > cur[1].score
            THEN Some([ score |-> total, back |-> j,
                        word |-> IF matched THEN sc.word[1] ELSE substr ])
            ELSE cur

(* best[i] after trying text[j:i], scored sc, behind prev_entry = best[j] *)
SegStep(sg, substr, j, prev_entry, sc, cur) ==
    IF sc.score <= NoMatchScore THEN cur
    ELSE LET matched == sc.word # None /\ sc.word[1] # <<>>
             total == prev_entry.score + sc.score
                        + (IF prev_entry.word # <<>> /\ matched
                           THEN BigramBonus(sg, prev_entry.word \o <<"_">> \o sc.word[1])
                           ELSE 0)
         IN IF cur = None \/ total > cur[1].score
            THEN Some([ score |-> total, back |-> j,
                        word |-> IF matched THEN sc.word[1] ELSE substr ])
            ELSE cur

RECURSIVE SegInner(_, _, _, _, _, _, _)
SegInner(sg, text, best, i, length, max_word_len, cur) ==
    IF length > Min2(max_word_len, i) THEN cur
    ELSE SegInner(sg, text, best, i, length + 1, max_word_len,
             IF best[i - length + 1] = None THEN cur
             ELSE SegStep(sg, SubSeq(text, i - length + 1, i), i - length,
                          best[i - length + 1][1],
                          _score_substring(sg, SubSeq(text, i - length + 1, i)),
                          cur))

RECURSIVE SegFill(_, _, _, _, _)
SegFill(sg, text, best, i, max_word_len) ==
    IF i > Len(text) THEN best
    ELSE SegFill(sg, text,
                 Append(best, SegInner(sg, text, best, i, 1, max_word_len, None)),
                 i + 1, max_word_len)

RECURSIVE Backtrack(_, _, _, _)
Backtrack(text, best, pos, segments) ==
    IF pos <= 0 THEN segments
    ELSE LET start == best[pos + 1][1].back
         IN Backtrack(text, best, start, <<SubSeq(text, start + 1, pos)>> \o segments)

(* Segmenter.segment on a loaded segmenter; the result is                 *)
(* [raised |-> TRUE] for a SegmentationError.                             *)
(* The end of segment: the error or the backtracked segments *)
SegResult(text, best) ==
    IF best[Len(text) + 1] = None
    THEN [raised |-> TRUE, segments |-> <<>>]
    ELSE [raised |-> FALSE, segments |-> Backtrack(text, best, Len(text), <<>>)]

(* segment from the point where text is lower-cased and stripped *)
SegmentStripped(c, sg, text) ==
    SegResult(text,
              SegFill(sg, text, << Some([score |-> 0, back |-> 0, word |-> <<>>]) >>,
                      1, Min2(c.max_word_length, Len(text))))

(* segment without the lower-casing *)
segment_keeps_case(c, sg, text0) ==
    IF text0 = <<>> THEN [raised |-> FALSE, segments |-> <<>>]
    ELSE SegmentStripped(c, sg, Strip(text0))

segment(c, sg, text0) ==
    IF text0 = <<>> THEN [raised |-> FALSE, segments |-> <<>>]
    ELSE SegmentStripped(c, sg, Strip(Lower(text0)))

----------------------------------------------------------------------------
(* Tokenizer.  Positions are Python's: text[i] is At(text, i). *)

(* The back-tick, which a TLA+ string literal cannot hold *)
Backtick == "BACKTICK"

At(text, i) == text[i + 1]
Slice(text, i, j) == SubSeq(text, i + 1, j)

LeadingPunctChars == {"(", "[", "{", "\"", "'"}
TrailingPunctChars == {")", "]", "}", ".", "!", "?", ",", ";", ":", "\"", "'"}
EmailLocalChars == Letters \cup Digits \cup {".", "_", "%", "+", "-"}
EmailDomainChars == Letters \cup Digits \cup {".", "-"}

(* End of the longest run of characters in S (not in S) starting at i *)
RECURSIVE RunEnd(_, _, _)
RunEnd(text, i, S) ==
    IF i < Len(text) /\ At(text, i) \in S THEN RunEnd(text, i + 1, S) ELSE i

RECURSIVE RunEndNot(_, _, _)
RunEndNot(text, i, S) ==
    IF i < Len(text) /\ At(text, i) \notin S THEN RunEndNot(text, i + 1, S) ELSE i

LitAt(text, i, lit) ==
    i + Len(lit) <= Len(text) /\ Lower(Slice(text, i, i + Len(lit))) = lit

(* Each XMatch(text, i) is the end of the match of the pattern at i, or -1 *)

(* _URL_RE: https?://[^\s]+|www\.[^\s]+ with IGNORECASE *)
UrlMatch(text, i) ==
    LET after(k) == IF RunEndNot(text, k, Spaces) > k
                    THEN RunEndNot(text, k, Spaces) ELSE -1
    IN IF LitAt(text, i, <<"h","t","t","p","s",":","/","/">>) /\ after(i + 8) # -1
       THEN after(i + 8)
       ELSE IF LitAt(text, i, <<"h","t","t","p",":","/","/">>) /\ after(i + 7) # -1
       THEN after(i + 7)
       ELSE IF LitAt(text, i, <<"w","w","w",".">>) THEN after(i + 4)
       ELSE -1

(* _CODE_RE: a back-tick, one or more other characters, a back-tick *)
CodeMatch(text, i) ==
    IF At(text, i) # Backtick THEN -1
    ELSE LET e == RunEndNot(text, i + 1, {Backtick})
         IN IF e > i + 1 /\ e < Len(text) THEN e + 1 ELSE -1

(* _QUOTED_RE: a quote, any characters but that quote, the same quote *)
QuotedMatch(text, i) ==
    IF At(text, i) \notin {"\"", "'"} THEN -1
    ELSE LET e == RunEndNot(text, i + 1, {At(text, i)})
         IN IF e < Len(text) THEN e + 1 ELSE -1

(* _EMAIL_RE: [a-zA-Z0-9._%+-]+@[a-zA-Z0-9.-]+\.[a-zA-Z]{2,}             *)
(* The domain part is greedy: it gives back characters until a dot        *)
(* followed by two letters is next, so the last such dot is taken.        *)
EmailMatch(text, i) ==
    LET l == RunEnd(text, i, EmailLocalChars)
    IN IF ~ (l > i /\ l < Len(text) /\ At(text, l) = "@") THEN -1
       ELSE LET de == RunEnd(text, l + 1, EmailDomainChars)
                dots == { p \in (l + 2)..(de - 1) :
                            /\ At(text, p) = "."
                            /\ RunEnd(text, p + 1, Letters) >= p + 3 }
            IN IF dots = {} THEN -1
               ELSE LET p == CHOOSE q \in dots : \A r \in dots : r <= q
                    IN RunEnd(text, p + 1, Letters)

MatchEnd(kind, text, i) ==
    CASE kind = "url" -> UrlMatch(text, i)
      [] kind = "code" -> CodeMatch(text, i)
      [] kind = "quoted" -> QuotedMatch(text, i)
      [] kind = "email" -> EmailMatch(text, i)

(* pattern.finditer(text): leftmost matches, each search resuming where   *)
(* the previous match ended.                                              *)
RECURSIVE FindIter(_, _, _)

(* One search at i, where the pattern's match at i ends at e (-1: none) *)
FindFrom(kind, text, i, e) ==
    IF e > i
    THEN << [start |-> i, end |-> e, matched |-> Slice(text, i, e)] >>
            \o FindIter(kind, text, e)
    ELSE FindIter(kind, text, i + 1)

FindIter(kind, text, i) ==
    IF i >= Len(text) THEN <<>>
    ELSE FindFrom(kind, text, i, MatchEnd(kind, text, i))

(* The protected spans of the four patterns, sorted by start (stable) *)
SortByStart(spans) ==
    Items(SortDescKeyed(<<>>,
        [i \in 1..Len(spans) |-> [key |-> 0 - spans[i].start, item |-> spans[i]]]))

Protected(text) ==
    SortByStart(FindIter("url", text, 0) \o FindIter("code", text, 0)
                  \o FindIter("quoted", text, 0) \o FindIter("email", text, 0))

Token(text, expandable, leading, trailing) ==
    [ text |-> text, expandable |-> expandable,
      leading_punct |-> leading, trailing_punct |-> trailing ]

(* with_expansion dropping the trailing punctuation *)
with_expansion_no_trailing(token, expanded) ==
    token.leading_punct \o expanded

with_expansion(token, expanded) ==
    token.leading_punct \o expanded \o token.trailing_punct

(* str.split(): the maximal runs of non-whitespace *)
RECURSIVE Split(_, _)
Split(text, i) ==
    LET b == RunEnd(text, i, Spaces)
        e == RunEndNot(text, b, Spaces)
    IN IF b >= Len(text) THEN <<>>
       ELSE <<Slice(text, b, e)>> \o Split(text, e)

(* _NUMBER_RE: ^\d+\.?\d*$ *)
IsNumber(word) ==
    LET d == RunEnd(word, 0, Digits)
        d2 == IF d < Len(word) /\ At(word, d) = "." THEN d + 1 ELSE d
    IN d > 0 /\ RunEnd(word, d2, Digits) = Len(word)

RECURSIVE TrailingRunStart(_, _)
TrailingRunStart(word, e) ==
    IF e > 0 /\ At(word, e - 1) \in TrailingPunctChars
    THEN TrailingRunStart(word, e - 1) ELSE e

TokenizeWord(word0) ==
    IF IsNumber(word0) THEN Token(word0, FALSE, <<>>, <<>>)
    ELSE LET l == RunEnd(word0, 0, LeadingPunctChars)
             leading == Slice(word0, 0, l)
             word1 == Slice(word0, l, Len(word0))
             t == TrailingRunStart(word1, Len(word1))
             trailing == Slice(word1, t, Len(word1))
             word == Slice(word1, 0, t)
         IN IF word = <<>>
            THEN Token(leading \o trailing, FALSE, <<>>, <<>>)
            ELSE Token(word,
                       IsAlpha(word)
                         \/ (IsAlnum(word) /\ \E i \in 1..Len(word) : word[i] \in Letters),
                       leading, trailing)

_tokenize_chunk(chunk) ==
    LET words == Split(chunk, 0)
    IN [i \in 1..Len(words) |-> TokenizeWord(words[i])]

RECURSIVE TokenizeWalk(_, _, _, _)
TokenizeWalk(text, protected, pos, tokens) ==
    IF protected = <<>>
    THEN IF pos < Len(text)
         THEN tokens \o _tokenize_chunk(Slice(text, pos, Len(text)))
         ELSE tokens
    ELSE LET sp == Head(protected)
             before == IF pos < sp.start
                       THEN _tokenize_chunk(Slice(text, pos, sp.start)) ELSE <<>>
         IN TokenizeWalk(text, Tail(protected), sp.end,
                         tokens \o before \o <<Token(sp.matched, FALSE, <<>>, <<>>)>>)

tokenize(text) ==
    IF text = <<>> \/ Strip(text) = <<>> THEN <<>>
    ELSE TokenizeWalk(text, Protected(text), 0, <<>>)

----------------------------------------------------------------------------
(* Expander *)

RECURSIVE Join(_, _)
Join(items, sep) ==
    IF items = <<>> THEN <<>>
    ELSE IF Len(items) = 1 THEN items[1]
    ELSE items[1] \o sep \o Join(Tail(items), sep)

TokenResult(original, expanded, confidence, candidates, tier, ambiguous) ==
    [ original |-> original, expanded |-> expanded, confidence |-> confidence,
      candidates |-> candidates, tier |-> tier, ambiguous |-> ambiguous,
      llm_resolved |-> FALSE ]

RECURSIVE _get_prev_expanded(_)
_get_prev_expanded(results) ==
    IF results = <<>> THEN None
    ELSE LET r == results[Len(results)]
         IN IF r.expanded # <<>> /\ IsAlpha(r.expanded) THEN Some(r.expanded)
            ELSE _get_prev_expanded(SubSeq(results, 1, Len(results) - 1))

(* idx is the token's index from 1; the code looks at the next two tokens *)
RECURSIVE PeekFrom(_, _, _, _)
PeekFrom(m, tokens, i, last) ==
    IF i > last THEN None
    ELSE IF tokens[i].expandable /\ is_known_word(m.words, Lower(tokens[i].text))
    THEN Some(Lower(tokens[i].text))
    ELSE PeekFrom(m, tokens, i + 1, last)

_peek_next_token(m, tokens, idx) ==
    PeekFrom(m, tokens, idx + 1, Min2(idx + 2, Len(tokens)))

(* NonExpandable treated as a token without candidates: echoed, confidence 0 *)
NonExpandableAsEcho(token) ==
    [ tr |-> TokenResult(token.text, token.text, 0, <<>>, "EXACT", FALSE),
      item |-> token.text, amb |-> FALSE ]

(* A non-expandable token passes through as it is *)
NonExpandable(token) ==
    [ tr |-> TokenResult(token.text, token.text, U, <<>>, "PASSTHROUGH", FALSE),
      item |-> token.text, amb |-> FALSE ]

(* KnownWord taking the matcher's top candidate as the expansion *)
KnownWordAsMatched(c, m, token) ==
    [ tr |-> TokenResult(token.text, match(c, m, token.text)[1].word, U,
                         match(c, m, token.text), "PASSTHROUGH", FALSE),
      item |-> with_expansion(token, match(c, m, token.text)[1].word),
      amb |-> FALSE ]

(* A known word passes through, lower-cased *)
KnownWord(c, m, token) ==
    [ tr |-> TokenResult(token.text, Lower(token.text), U,
                         match(c, m, token.text), "PASSTHROUGH", FALSE),
      item |-> with_expansion(token, Lower(token.text)), amb |-> FALSE ]

(* No candidates: the token is echoed with confidence 0 *)
NoCandidates(token) ==
    [ tr |-> TokenResult(token.text, token.text, 0, <<>>, "EXACT", FALSE),
      item |-> with_expansion(token, token.text), amb |-> FALSE ]

(* Picked recording no ambiguity when pick_best gives no best *)
PickedUnflagged(token, candidates, pb) ==
    IF pb.best = None
    THEN [ tr |-> TokenResult(token.text, token.text, 0, candidates, "EXACT", FALSE),
           item |-> with_expansion(token, token.text),
           amb |-> FALSE ]
    ELSE [ tr |-> TokenResult(token.text, pb.best[1].word, pb.best[1].score,
                              candidates, pb.best[1].tier, pb.ambiguous),
           item |-> with_expansion(token, pb.best[1].word),
           amb |-> pb.ambiguous ]

(* The outcome for the rescored candidates and pb = pick_best(candidates) *)
Picked(token, candidates, pb) ==
    IF pb.best = None
    THEN [ tr |-> TokenResult(token.text, token.text, 0, candidates, "EXACT", TRUE),
           item |-> with_expansion(token, token.text),
           amb |-> TRUE ]
    ELSE [ tr |-> TokenResult(token.text, pb.best[1].word, pb.best[1].score,
                              candidates, pb.best[1].tier, pb.ambiguous),
           item |-> with_expansion(token, pb.best[1].word),
           amb |-> pb.ambiguous ]

Rescored(c, token, candidates) == Picked(token, candidates, pick_best(c, candidates))

(* Phase 3 from the matcher's candidates on *)
Matched(c, m, tokens, idx, token_results, candidates) ==
    IF candidates = <<>> THEN NoCandidates(tokens[idx])
    ELSE Rescored(c, tokens[idx],
                  rescore(c, candidates, _get_prev_expanded(token_results),
                          _peek_next_token(m, tokens, idx)))

(* Phase 3 for the token at idx: its TokenResult, its output item and     *)
(* whether its index is recorded as ambiguous.                            *)
ExpandToken(c, m, tokens, idx, token_results) ==
    IF ~ tokens[idx].expandable THEN NonExpandable(tokens[idx])
    ELSE IF c.passthrough_known_words /\ is_known_word(m.words, tokens[idx].text)
    THEN KnownWord(c, m, tokens[idx])
    ELSE Matched(c, m, tokens, idx, token_results, match(c, m, tokens[idx].text))

(* The loop's three lists after the outcome r of the token at idx *)
Recorded(acc, idx, r) ==
    [ token_results |-> Append(acc.token_results, r.tr),
      expanded_words |-> Append(acc.expanded_words, r.item),
      ambiguous_indices |->
          IF r.amb THEN Append(acc.ambiguous_indices, idx - 1)
          ELSE acc.ambiguous_indices ]

RECURSIVE ExpandLoop(_, _, _, _, _)
ExpandLoop(c, m, tokens, idx, acc) ==
    IF idx > Len(tokens) THEN acc
    ELSE ExpandLoop(c, m, tokens, idx + 1,
             Recorded(acc, idx, ExpandToken(c, m, tokens, idx, acc.token_results)))

RECURSIVE SumConfidence(_)
SumConfidence(results) ==
    IF results = <<>> THEN 0
    ELSE results[1].confidence + SumConfidence(Tail(results))

(* The confidence is the fraction num / den of one unit U *)
_overall_confidence(results) ==
    IF results = <<>> THEN [num |-> 0, den |-> 1]
    ELSE IF ~ \E i \in 1..Len(results) :
                 results[i].tier # "PASSTHROUGH" \/ results[i].confidence < U
    THEN [num |-> U, den |-> 1]
    ELSE [num |-> SumConfidence(results), den |-> Len(results)]

ExpansionReport(input, expanded) ==
    [ raised |-> FALSE, input |-> input, expanded |-> expanded, tokens |-> <<>>,
      confidence |-> [num |-> 0, den |-> 1], spaceless |-> FALSE,
      segments |-> None, llm_used |-> FALSE,
      source_tokens |-> <<>>, expanded_words |-> <<>>,
      ambiguous_indices |-> <<>>, llm_calls |-> 0 ]

(* The report built from the loop's lists r *)
Report(text, spaceless, segments, tokens, r) ==
    [ raised |-> FALSE, input |-> text,
      expanded |-> Join(r.expanded_words, <<" ">>),
      tokens |-> r.token_results,
      confidence |-> _overall_confidence(r.token_results),
      spaceless |-> spaceless, segments |-> segments,
      llm_used |-> FALSE,
      source_tokens |-> tokens,
      expanded_words |-> r.expanded_words,
      ambiguous_indices |-> r.ambiguous_indices, llm_calls |-> 0 ]

(* expand_detailed from phase 2, the tokens, on *)
Tokenized(c, m, text, spaceless, segments, tokens) ==
    IF tokens = <<>>
    THEN [ExpansionReport(text, text) EXCEPT !.spaceless = spaceless]
    ELSE Report(text, spaceless, segments, tokens,
                ExpandLoop(c, m, tokens, 1,
                           [ token_results |-> <<>>, expanded_words |-> <<>>,
                             ambiguous_indices |-> <<>> ]))

(* Phase 1, spaceless mode: sr is the outcome of segment(text) *)
Segmented(c, m, text, sr) ==
    IF sr.raised THEN [raised |-> TRUE]
    ELSE Tokenized(c, m, text, TRUE, Some(sr.segments),
                   tokenize(Join(sr.segments, <<" ">>)))

(* expand_detailed after _ensure_built, with no LLM fallback configured.  *)
(* m is the built matcher and sg the loaded segmenter.  source_tokens,    *)
(* expanded_words and ambiguous_indices are the call's locals of these    *)
(* names (tokens for the first); llm_calls counts the calls it made to    *)
(* provider.complete.                                                     *)
expand_detailed(c, m, sg, text, spaceless) ==
    IF text = <<>> \/ Strip(text) = <<>> THEN ExpansionReport(text, text)
    ELSE IF spaceless THEN Segmented(c, m, text, segment(c, sg, text))
    ELSE Tokenized(c, m, text, FALSE, None, tokenize(text))

----------------
(* The LLM fallback.  What provider.complete does is the environment's    *)
(* choice: it raises, or it returns a response.                           *)

Quote == "\""

ProviderRaises == [kind |-> "raise"]
ProviderReturns(text) == [kind |-> "return", text |-> text]

(* if len(result) >= 2 and result[0] == '"' and result[-1] == '"' *)
StripQuotes(result) ==
    IF Len(result) >= 2 /\ result[1] = Quote /\ result[Len(result)] = Quote
    THEN SubSeq(result, 2, Len(result) - 1)
    ELSE result

(* Sanitized rejecting a result of exactly three times the length too *)
SanitizedBelowLimit(expanded, result) ==
    IF result = <<>> \/ Len(result) >= Len(expanded) * 3
    THEN [raised |-> FALSE, text |-> expanded]
    ELSE [raised |-> FALSE, text |-> result]

(* polish from the sanity check on *)
Sanitized(expanded, result) ==
    IF result = <<>> \/ Len(result) > Len(expanded) * 3
    THEN [raised |-> FALSE, text |-> expanded]
    ELSE [raised |-> FALSE, text |-> result]

(* LLMFallback.polish for the outcome of its one provider.complete call:  *)
(* it raises LLMFallbackError, or returns a text.                         *)
polish(original, expanded, outcome) ==
    IF outcome.kind = "raise" THEN [raised |-> TRUE]
    ELSE Sanitized(expanded, StripQuotes(Strip(outcome.text)))

(* MarkResolved marking every token, ambiguous or not *)
MarkAllResolved(token_results, ambiguous_indices) ==
    [ i \in 1..Len(token_results) |->
        [token_results[i] EXCEPT !.llm_resolved = TRUE, !.ambiguous = FALSE] ]

(* Every token whose index was recorded as ambiguous is marked resolved *)
MarkResolved(token_results, ambiguous_indices) ==
    [ i \in 1..Len(token_results) |->
        IF \E k \in 1..Len(ambiguous_indices) : ambiguous_indices[k] = i - 1
        THEN [token_results[i] EXCEPT !.llm_resolved = TRUE, !.ambiguous = FALSE]
        ELSE token_results[i] ]

(* Polished without the except clause: a failure of polish propagates *)
PolishedFailureFatal(rep, p) ==
    IF p.raised THEN [raised |-> TRUE]
    ELSE IF p.text = rep.expanded THEN [rep EXCEPT !.llm_calls = 1]
    ELSE [rep EXCEPT !.expanded_words = Split(p.text, 0),
                     !.expanded = Join(Split(p.text, 0), <<" ">>),
                     !.tokens = MarkResolved(rep.tokens, rep.ambiguous_indices),
                     !.llm_used = TRUE,
                     !.llm_calls = 1]

(* Phase 4 after the polish call returned p, on the dictionary result rep *)
Polished(rep, p) ==
    IF p.raised \/ p.text = rep.expanded
    THEN [rep EXCEPT !.llm_calls = 1]
    ELSE [rep EXCEPT !.expanded_words = Split(p.text, 0),
                     !.expanded = Join(Split(p.text, 0), <<" ">>),
                     !.tokens = MarkResolved(rep.tokens, rep.ambiguous_indices),
                     !.llm_used = TRUE,
                     !.llm_calls = 1]

(* Phase 4 consulting the fallback whether or not llm_enabled is set *)
Phase4IgnoringEnabled(c, fb, outcome, rep) ==
    IF rep.raised THEN rep
    ELSE IF rep.source_tokens = <<>> THEN rep
    ELSE IF fb # None
    THEN Polished(rep, polish(rep.input, rep.expanded, outcome))
    ELSE rep

(* Phase 4 of expand_detailed on the dictionary result rep.  The early    *)
(* returns (blank text, no tokens) and an exception of phase 1 never      *)
(* reach it.                                                              *)
Phase4(c, fb, outcome, rep) ==
    IF rep.raised THEN rep
    ELSE IF rep.source_tokens = <<>> THEN rep
    ELSE IF fb # None /\ c.llm_enabled
    THEN Polished(rep, polish(rep.input, rep.expanded, outcome))
    ELSE rep

----------------
(* The objects as constructed *)

NewMatcher ==
    [words |-> <<>>, abbr |-> <<>>, trie |-> <<>>, max_freq |-> 7, built |-> FALSE]

NewSegmenter ==
    [loaded |-> FALSE, words |-> <<>>, max_freq |-> 7, max_bigram |-> 7]

NoCall == [op |-> "none"]
NoRet == [none |-> TRUE]

(* No rebuild is running *)
Idle == "idle"

----------------------------------------------------------------------------
(* Spec: the life of one Expander.  The text and the mode are chosen at   *)
(* the start, and abbreviations may come with the config.  add_words and  *)
(* add_abbreviations are called on an Expander that has nothing           *)
(* registered yet; expand_detailed is called at any time.  Spaceless mode *)
(* is explored under the default config.                                  *)

Pieces ==
    { <<" ">>, <<"a">>, <<"A">>, <<"a","b">>, <<"c","a">>,
      <<"(">>, <<"!">>, <<"1","2">>, <<Backtick,"a"," ","b",Backtick>> }

PieceTexts == {Concat(ps) : ps \in SeqsUpTo(Pieces, MaxPieces)}

(* The texts whose expandable tokens have at most MaxTokenLen characters *)
ExpandTexts ==
    { t \in PieceTexts :
        \A i \in 1..Len(tokenize(t)) :
            tokenize(t)[i].expandable => Len(tokenize(t)[i].text) <= MaxTokenLen }

ExpandConfigs ==
    { DefaultConfig,
      [DefaultConfig EXCEPT !.passthrough_known_words = FALSE],
      [DefaultConfig EXCEPT !.min_confidence = 80] }

NonEmpty(choices) == choices \ {<<>>}

Init ==
    /\ custom_words = <<>>
    /\ abbreviations \in AbbreviationChoices
    /\ cfg \in ExpandConfigs
    /\ ex_built = FALSE
    /\ matcher = NewMatcher
    /\ segmenter = NewSegmenter
    /\ args \in [text : ExpandTexts, spaceless : BOOLEAN]
    /\ args.spaceless => cfg = DefaultConfig
    /\ call = NoCall
    /\ ret = NoRet
    /\ llm_fallback = None
    /\ corrections = <<>>
    /\ recorded = <<>>
    /\ build_pc = Idle

NothingRegistered == custom_words = <<>> /\ abbreviations = <<>>

AddWords(words) ==
    /\ NothingRegistered
    /\ custom_words' = DictUpdate(custom_words, words)
    /\ ex_built' = FALSE
    /\ call' = [op |-> "add_words", words |-> words]
    /\ ret' = NoRet
    /\ UNCHANGED <<corrections, recorded, abbreviations, cfg, matcher, segmenter, args,
                 llm_fallback, build_pc>>

AddAbbreviations(abbrs) ==
    /\ NothingRegistered
    /\ abbreviations' = DictUpdate(abbreviations, abbrs)
    /\ ex_built' = FALSE
    /\ call' = [op |-> "add_abbreviations", abbreviations |-> abbrs]
    /\ ret' = NoRet
    /\ UNCHANGED <<corrections, recorded, custom_words, cfg, matcher, segmenter, args,
                 llm_fallback, build_pc>>

(* Expander._ensure_built *)
_ensure_built ==
    IF ex_built THEN matcher ELSE Build(<<>>, <<>>, custom_words, abbreviations)

(* Segmenter._load, reached only through segment *)
Loaded == IF segmenter.loaded THEN segmenter ELSE _load(custom_words)

ExpandDetailed ==
    LET blank == args.text = <<>> \/ Strip(args.text) = <<>>
        m == _ensure_built
        sg == IF args.spaceless /\ ~ blank THEN Loaded ELSE segmenter
    IN /\ call.op # "expand_detailed"
       /\ matcher' = m
       /\ ex_built' = TRUE
       /\ segmenter' = sg
       /\ call' = [op |-> "expand_detailed", text |-> args.text,
                   spaceless |-> args.spaceless]
       /\ ret' = expand_detailed(cfg, m, sg, args.text, args.spaceless)
       /\ UNCHANGED <<corrections, recorded, custom_words, abbreviations, cfg, args,
                    llm_fallback, build_pc>>

(* The words argument of add_words: the custom word choices and one that  *)
(* makes a three-letter word more frequent than every corpus word.        *)
AddWordsChoices ==
    CustomWordChoices \cup { << [k |-> <<"a","a","b">>, v |-> 12] >> }

Next ==
    \/ \E w \in NonEmpty(AddWordsChoices) : AddWords(w)
    \/ \E a \in NonEmpty(AbbreviationChoices) : AddAbbreviations(a)
    \/ ExpandDetailed

Spec == Init /\ [][Next]_vars

----------------------------------------------------------------------------
(* SpecMatcher: one Matcher, one ContextResolver and one Scorer over one  *)
(* config.  The arguments are chosen at the start: a token for match, or  *)
(* a candidate list with its context words for rescore and pick_best.     *)

(* Scores in hundredths.  The gaps between them are computed exactly in   *)
(* floating point, or lie well away from both margins.                    *)
CandWords == { <<"a">>, <<"a","b">>, <<"c","a","b">>, <<"b","a">> }
CandScores == {10, 20, 50, 75}
Cands ==
    { ScoredCandidate(w, (U \div 100) * sc, "PREFIX", U, U, 0, U)
        : w \in CandWords, sc \in CandScores }

(* Candidate lists name each word once, as the lists match returns do *)
CandidateLists ==
    { cs \in SeqsUpTo(Cands, MaxCands) :
        \A i, j \in 1..Len(cs) : cs[i].word = cs[j].word => i = j }

PrevWords == {None, Some(<<"a">>), Some(<<"a","b">>)}
NextWords == {None, Some(<<"b","a">>)}

InitMatcher ==
    /\ ex_built = FALSE
    /\ matcher = NewMatcher
    /\ segmenter = NewSegmenter
    /\ call = NoCall
    /\ ret = NoRet
    /\ llm_fallback = None
    /\ corrections = <<>>
    /\ recorded = <<>>
    /\ build_pc = Idle
    /\ \/ /\ args \in [token : Tokens]
          /\ cfg \in {[DefaultConfig EXCEPT !.rapidfuzz = rf] : rf \in BOOLEAN}
          /\ custom_words \in CustomWordChoices
          /\ abbreviations \in AbbreviationChoices
       \/ /\ args \in [candidates : CandidateLists,
                        prev_word : PrevWords, next_word : NextWords]
          /\ cfg \in {[DefaultConfig EXCEPT !.ambiguity_margin = am] : am \in {15, 25}}
          /\ custom_words = <<>>
          /\ abbreviations = <<>>

(* Matcher.build(extra_words, abbreviations) *)
MatcherBuild(extra_words, abbrs) ==
    /\ "token" \in DOMAIN args
    /\ matcher' = Build(extra_words, abbrs, custom_words, abbreviations)
    /\ call' = [op |-> "build"]
    /\ ret' = NoRet
    /\ UNCHANGED <<corrections, recorded, custom_words, abbreviations, cfg, ex_built, segmenter, args,
                 llm_fallback, build_pc>>

(* if not self._built: self.build() *)
Built == IF matcher.built THEN matcher
         ELSE Build(<<>>, <<>>, custom_words, abbreviations)

Match ==
    /\ "token" \in DOMAIN args
    /\ matcher' = Built
    /\ call' = [op |-> "match"]
    /\ ret' = match(cfg, Built, args.token)
    /\ UNCHANGED <<corrections, recorded, custom_words, abbreviations, cfg, ex_built, segmenter, args,
                 llm_fallback, build_pc>>

Rescore ==
    /\ "candidates" \in DOMAIN args
    /\ call' = [op |-> "rescore"]
    /\ ret' = rescore(cfg, args.candidates, args.prev_word, args.next_word)
    /\ UNCHANGED <<corrections, recorded, custom_words, abbreviations, cfg, ex_built, matcher, segmenter, args,
                 llm_fallback, build_pc>>

PickBest ==
    /\ "candidates" \in DOMAIN args
    /\ call' = [op |-> "pick_best"]
    /\ ret' = pick_best(cfg, args.candidates)
    /\ UNCHANGED <<corrections, recorded, custom_words, abbreviations, cfg, ex_built, matcher, segmenter, args,
                 llm_fallback, build_pc>>

NextMatcher ==
    \/ \E w \in ExtraWordChoices, a \in ExtraAbbreviationChoices : MatcherBuild(w, a)
    \/ Match
    \/ Rescore
    \/ PickBest

SpecMatcher == InitMatcher /\ [][NextMatcher]_vars

----------------------------------------------------------------------------
(* SpecEdit: Matcher._edit_distance, a static method, on two strings and  *)
(* a budget chosen at the start.                                          *)

EditChars == {"a", "b"}

InitEdit ==
    /\ custom_words = <<>>
    /\ abbreviations = <<>>
    /\ cfg = DefaultConfig
    /\ ex_built = FALSE
    /\ matcher = NewMatcher
    /\ segmenter = NewSegmenter
    /\ args \in [s1 : SeqsUpTo(EditChars, MaxEditLen),
                 s2 : SeqsUpTo(EditChars, MaxEditLen), max_dist : 0..MaxBudget]
    /\ call = NoCall
    /\ ret = NoRet
    /\ llm_fallback = None
    /\ corrections = <<>>
    /\ recorded = <<>>
    /\ build_pc = Idle

EditDistance ==
    /\ call = NoCall
    /\ call' = [op |-> "_edit_distance"]
    /\ ret' = _edit_distance(args.s1, args.s2, args.max_dist)
    /\ UNCHANGED <<corrections, recorded, custom_words, abbreviations, cfg, ex_built, matcher, segmenter, args,
                 llm_fallback, build_pc>>

NextEdit == EditDistance

SpecEdit == InitEdit /\ [][NextEdit]_vars

----------------------------------------------------------------------------
(* SpecSegment: one Segmenter over a config, segmenting a text chosen at  *)
(* the start.                                                             *)

SegChars == {"a", "b", "c", "A", " "}

(* The custom words a Segmenter's config may carry; the last choice makes *)
(* the word table hold a word that is two of its words put together, as   *)
(* "into" is beside "in" and "to" in the bundled words.json.              *)
SegmentWordChoices ==
    CustomWordChoices \cup { << [k |-> <<"a","a","b">>, v |-> 1] >> }

InitSegment ==
    /\ custom_words \in SegmentWordChoices
    /\ abbreviations = <<>>
    /\ cfg \in {[DefaultConfig EXCEPT !.max_word_length = mwl] : mwl \in {20, 2}}
    /\ ex_built = FALSE
    /\ matcher = NewMatcher
    /\ segmenter = NewSegmenter
    /\ args \in [text : SeqsUpTo(SegChars, MaxSegLen)]
    /\ call = NoCall
    /\ ret = NoRet
    /\ llm_fallback = None
    /\ corrections = <<>>
    /\ recorded = <<>>
    /\ build_pc = Idle

Segment ==
    /\ call = NoCall
    /\ segmenter' = Loaded
    /\ call' = [op |-> "segment"]
    /\ ret' = segment(cfg, Loaded, args.text)
    /\ UNCHANGED <<corrections, recorded, custom_words, abbreviations, cfg, ex_built, matcher, args,
                 llm_fallback, build_pc>>

NextSegment == Segment

SpecSegment == InitSegment /\ [][NextSegment]_vars

----------------------------------------------------------------------------
(* SpecLLM: one Expander, constructed with or without an LLM fallback and *)
(* with llm_enabled set or not, expanding a text chosen at the start.     *)
(* What the provider does when it is called is chosen at the call.        *)

MaxLlmPieces == 2

LlmTexts ==
    { t \in {Concat(ps) : ps \in SeqsUpTo(Pieces, MaxLlmPieces)} :
        \A i \in 1..Len(tokenize(t)) :
            tokenize(t)[i].expandable => Len(tokenize(t)[i].text) <= MaxTokenLen }

LlmConfigs ==
    { [c EXCEPT !.llm_enabled = e] :
        c \in {DefaultConfig, [DefaultConfig EXCEPT !.min_confidence = 80]},
        e \in BOOLEAN }
    \cup { [DefaultConfig EXCEPT !.llm_enabled = TRUE, !.max_word_length = 1] }

(* The responses of the provider: empty, blank, a word, the same word in  *)
(* quotes or between spaces, a lone quote, two words with one or two      *)
(* spaces between them, and responses of three and four characters,       *)
(* which are at and above three times a one-character expansion.          *)
LlmResponses ==
    { <<>>, <<" ">>, <<"a">>, <<"c","a","a">>,
      <<Quote,"c","a","a",Quote>>, <<" ","c","a","a"," ">>, <<Quote>>,
      <<"a"," ","b","a">>, <<"a"," "," ","b","a">>,
      <<"c","a","b">>, <<"c","a","a","b">>,
      <<Quote,Quote>>, <<Quote,Quote,"a",Quote,Quote>>, <<Quote," ","a",Quote>>,
      <<" ",Quote,"c","a","b"," ","c","a","a"," ","a","b",Quote," ">> }

ProviderOutcomes == {ProviderRaises} \cup {ProviderReturns(t) : t \in LlmResponses}

(* LLMFallback(provider) *)
NewFallback == Some([timeout |-> 2])

InitLLM ==
    /\ custom_words = <<>>
    /\ abbreviations = <<>>
    /\ cfg \in LlmConfigs
    /\ ex_built = FALSE
    /\ matcher = NewMatcher
    /\ segmenter = NewSegmenter
    /\ args \in [text : LlmTexts, spaceless : BOOLEAN]
    /\ call = NoCall
    /\ ret = NoRet
    /\ llm_fallback \in {None, NewFallback}
    /\ corrections = <<>>
    /\ recorded = <<>>
    /\ build_pc = Idle

(* expand_detailed, all four phases; outcome is what provider.complete    *)
(* does if it is called.                                                  *)
ExpandPolished(outcome) ==
    LET blank == args.text = <<>> \/ Strip(args.text) = <<>>
        m == _ensure_built
        sg == IF args.spaceless /\ ~ blank THEN Loaded ELSE segmenter
    IN /\ call = NoCall
       /\ matcher' = m
       /\ ex_built' = TRUE
       /\ segmenter' = sg
       /\ call' = [op |-> "expand_detailed", text |-> args.text,
                   spaceless |-> args.spaceless, outcome |-> outcome]
       /\ ret' = Phase4(cfg, llm_fallback, outcome,
                        expand_detailed(cfg, m, sg, args.text, args.spaceless))
       /\ UNCHANGED <<corrections, recorded, custom_words, abbreviations, cfg, args, llm_fallback, build_pc>>

NextLLM == \E outcome \in ProviderOutcomes : ExpandPolished(outcome)

SpecLLM == InitLLM /\ [][NextLLM]_vars

----------------------------------------------------------------------------
(* SpecRebuild: a Matcher whose index was built before custom_words and   *)
(* abbreviations were registered is rebuilt by one thread, statement by   *)
(* statement of Matcher.build, while another thread calls match and       *)
(* is_known_word on it.  Nothing in the code orders the two threads, so a *)
(* read may fall between any two statements of the build; _built stays   *)
(* true throughout, since build never resets it.  A read is taken as one  *)
(* step: it sees the index as it stands at that moment.                   *)

ReaderTokens == {t \in Tokens : Len(t) <= 2}

OldIndex == Build(<<>>, <<>>, <<>>, <<>>)
NewIndex == Build(<<>>, <<>>, custom_words, abbreviations)

InitRebuild ==
    /\ custom_words \in CustomWordChoices
    /\ abbreviations \in AbbreviationChoices
    /\ cfg = DefaultConfig
    /\ ex_built = FALSE
    /\ matcher = OldIndex
    /\ segmenter = NewSegmenter
    /\ args \in [token : ReaderTokens]
    /\ call = NoCall
    /\ ret = NoRet
    /\ llm_fallback = None
    /\ corrections = <<>>
    /\ recorded = <<>>
    /\ build_pc = Idle

(* self._words = dict(get_words()) *)
BuildWords ==
    /\ build_pc = Idle
    /\ matcher' = [matcher EXCEPT !.words = get_words]
    /\ build_pc' = "words"
    /\ UNCHANGED <<corrections, recorded, custom_words, abbreviations, cfg, ex_built, segmenter, args,
                   call, ret, llm_fallback>>

(* self._words.update(self.config.custom_words) *)
BuildCustomWords ==
    /\ build_pc = "words"
    /\ matcher' = [matcher EXCEPT !.words = DictUpdate(matcher.words, custom_words)]
    /\ build_pc' = "custom_words"
    /\ UNCHANGED <<corrections, recorded, custom_words, abbreviations, cfg, ex_built, segmenter, args,
                   call, ret, llm_fallback>>

(* self._abbreviations = {} *)
BuildAbbreviationsReset ==
    /\ build_pc = "custom_words"
    /\ matcher' = [matcher EXCEPT !.abbr = <<>>]
    /\ build_pc' = "abbreviations_reset"
    /\ UNCHANGED <<corrections, recorded, custom_words, abbreviations, cfg, ex_built, segmenter, args,
                   call, ret, llm_fallback>>

(* self._abbreviations.update(self.config.abbreviations) *)
BuildAbbreviations ==
    /\ build_pc = "abbreviations_reset"
    /\ matcher' = [matcher EXCEPT !.abbr = DictUpdate(matcher.abbr, abbreviations)]
    /\ build_pc' = "abbreviations"
    /\ UNCHANGED <<corrections, recorded, custom_words, abbreviations, cfg, ex_built, segmenter, args,
                   call, ret, llm_fallback>>

(* self._trie_root = TrieNode() *)
BuildTrieReset ==
    /\ build_pc = "abbreviations"
    /\ matcher' = [matcher EXCEPT !.trie = <<>>]
    /\ build_pc' = "trie"
    /\ UNCHANGED <<corrections, recorded, custom_words, abbreviations, cfg, ex_built, segmenter, args,
                   call, ret, llm_fallback>>

(* One turn of the loop: self._trie_insert(word, freq) for the next word *)
BuildTrieInsert ==
    /\ build_pc = "trie"
    /\ Len(matcher.trie) < Len(matcher.words)
    /\ matcher' = [matcher EXCEPT
                      !.trie = Append(matcher.trie,
                                      matcher.words[Len(matcher.trie) + 1])]
    /\ UNCHANGED <<corrections, recorded, custom_words, abbreviations, cfg, ex_built, segmenter, args,
                   call, ret, llm_fallback, build_pc>>

(* self._max_freq = max(self._words.values()) if self._words else 7.0 *)
BuildMaxFreq ==
    /\ build_pc = "trie"
    /\ Len(matcher.trie) = Len(matcher.words)
    /\ matcher' = [matcher EXCEPT
                      !.max_freq = IF matcher.words # <<>>
                                   THEN MaxValue(matcher.words) ELSE 7]
    /\ build_pc' = "max_freq"
    /\ UNCHANGED <<corrections, recorded, custom_words, abbreviations, cfg, ex_built, segmenter, args,
                   call, ret, llm_fallback>>

(* self._built = True *)
BuildDone ==
    /\ build_pc = "max_freq"
    /\ matcher' = [matcher EXCEPT !.built = TRUE]
    /\ build_pc' = "done"
    /\ UNCHANGED <<corrections, recorded, custom_words, abbreviations, cfg, ex_built, segmenter, args,
                   call, ret, llm_fallback>>

(* The reader's match(token); index is the index it read *)
ReaderMatch ==
    /\ matcher.built
    /\ call' = [op |-> "match", index |-> matcher]
    /\ ret' = match(cfg, matcher, args.token)
    /\ UNCHANGED <<corrections, recorded, custom_words, abbreviations, cfg, ex_built, matcher, segmenter,
                   args, llm_fallback, build_pc>>

(* The reader's is_known_word(token) *)
ReaderIsKnownWord ==
    /\ matcher.built
    /\ call' = [op |-> "is_known_word", index |-> matcher]
    /\ ret' = is_known_word(matcher.words, args.token)
    /\ UNCHANGED <<corrections, recorded, custom_words, abbreviations, cfg, ex_built, matcher, segmenter,
                   args, llm_fallback, build_pc>>

NextRebuild ==
    \/ BuildWords
    \/ BuildCustomWords
    \/ BuildAbbreviationsReset
    \/ BuildAbbreviations
    \/ BuildTrieReset
    \/ BuildTrieInsert
    \/ BuildMaxFreq
    \/ BuildDone
    \/ ReaderMatch
    \/ ReaderIsKnownWord

SpecRebuild == InitRebuild /\ [][NextRebuild]_vars

----------------------------------------------------------------------------
(* The user model.  _corrections maps an abbreviation to the words it was *)
(* corrected to, each with its count.  A boost is the fraction num / den. *)

RECURSIVE SumValues(_)
SumValues(d) == IF d = <<>> THEN 0 ELSE Head(d).v + SumValues(Tail(d))

(* record_correction storing the abbreviation and the word as given *)
record_correction_keeps_case(cs, abbreviation, correct_word) ==
    LET c1 == IF ~ HasKey(cs, abbreviation) THEN DictSet(cs, abbreviation, <<>>) ELSE cs
    IN  DictSet(c1, abbreviation,
                DictSet(Get(c1, abbreviation), correct_word,
                        GetOr(Get(c1, abbreviation), correct_word, 0) + 1))

(* UserModel.record_correction; _save does nothing without a path *)
record_correction(cs, abbreviation, correct_word) ==
    LET abbrev == Lower(abbreviation)
        word == Lower(correct_word)
        c1 == IF ~ HasKey(cs, abbrev) THEN DictSet(cs, abbrev, <<>>) ELSE cs
    IN  DictSet(c1, abbrev,
                DictSet(Get(c1, abbrev), word, GetOr(Get(c1, abbrev), word, 0) + 1))

(* max(prefs, key=lambda w: prefs[w]): the first key, in insertion order, *)
(* of the greatest count                                                  *)
RECURSIVE MaxKey(_, _)
MaxKey(prefs, acc) ==
    IF prefs = <<>> THEN acc.k
    ELSE MaxKey(Tail(prefs), IF Head(prefs).v > acc.v THEN Head(prefs) ELSE acc)

(* UserModel.get_preference *)
get_preference(cs, abbreviation) ==
    LET abbrev == Lower(abbreviation)
    IN  IF ~ HasKey(cs, abbrev) THEN None
        ELSE IF Get(cs, abbrev) = <<>> THEN None
        ELSE Some(MaxKey(Tail(Get(cs, abbrev)), Head(Get(cs, abbrev))))

(* min(0.3, count / total * 0.3) *)
Boost(count, total) ==
    IF 10 * 3 * count > 3 * 10 * total
    THEN [num |-> 3, den |-> 10]
    ELSE [num |-> 3 * count, den |-> 10 * total]

(* UserModel.get_boost *)
get_boost(cs, abbreviation, word0) ==
    LET abbrev == Lower(abbreviation)
        word == Lower(word0)
    IN  IF ~ HasKey(cs, abbrev) THEN [num |-> 0, den |-> 1]
        ELSE IF SumValues(Get(cs, abbrev)) = 0 THEN [num |-> 0, den |-> 1]
        ELSE Boost(GetOr(Get(cs, abbrev), word, 0), SumValues(Get(cs, abbrev)))

----------------------------------------------------------------------------
(* SpecUserModel: one UserModel made without a path, so that nothing is   *)
(* loaded and _save returns at once.  At most MaxUserCalls corrections    *)
(* are recorded between two clears.                                       *)

UserAbbreviations == { <<"k">>, <<"K">>, <<"a","b">> }
UserWords == { <<"c","a","b">>, <<"C","a","b">>, <<"b","a">> }

InitUserModel ==
    /\ custom_words = <<>>
    /\ abbreviations = <<>>
    /\ cfg = DefaultConfig
    /\ ex_built = FALSE
    /\ matcher = NewMatcher
    /\ segmenter = NewSegmenter
    /\ args = [path |-> None]
    /\ call = NoCall
    /\ ret = NoRet
    /\ llm_fallback = None
    /\ build_pc = Idle
    /\ corrections = <<>>
    /\ recorded = <<>>

UserModelFrame ==
    UNCHANGED <<custom_words, abbreviations, cfg, ex_built, matcher, segmenter, args,
                llm_fallback, build_pc>>

RecordCorrection(abbreviation, correct_word) ==
    /\ Len(recorded) < MaxUserCalls
    /\ corrections' = record_correction(corrections, abbreviation, correct_word)
    /\ recorded' = Append(recorded, [abbreviation |-> abbreviation,
                                     correct_word |-> correct_word])
    /\ call' = [op |-> "record_correction", abbreviation |-> abbreviation,
                correct_word |-> correct_word]
    /\ ret' = NoRet
    /\ UserModelFrame

Clear ==
    /\ corrections' = <<>>
    /\ recorded' = <<>>
    /\ call' = [op |-> "clear"]
    /\ ret' = NoRet
    /\ UserModelFrame

GetPreference(abbreviation) ==
    /\ call' = [op |-> "get_preference", abbreviation |-> abbreviation]
    /\ ret' = get_preference(corrections, abbreviation)
    /\ UNCHANGED <<corrections, recorded>>
    /\ UserModelFrame

GetBoost(abbreviation, word) ==
    /\ call' = [op |-> "get_boost", abbreviation |-> abbreviation, word |-> word]
    /\ ret' = get_boost(corrections, abbreviation, word)
    /\ UNCHANGED <<corrections, recorded>>
    /\ UserModelFrame

NextUserModel ==
    \/ \E a \in UserAbbreviations, w \in UserWords : RecordCorrection(a, w)
    \/ Clear
    \/ \E a \in UserAbbreviations : GetPreference(a)
    \/ \E a \in UserAbbreviations, w \in UserWords : GetBoost(a, w)

SpecUserModel == InitUserModel /\ [][NextUserModel]_vars

----------------------------------------------------------------------------
(* SpecTokenize: tokenize on a text put together from letters, digits,    *)
(* punctuation, whitespace and the openings of the protected patterns.    *)

TokenizePieces ==
    { <<" ">>, <<"a">>, <<"1">>, <<".">>, <<"(">>, <<")">>, <<Quote>>, <<Backtick>>,
      <<"w","w","w",".">>, <<"a","@","a",".","a","a">> }

TokenizeTexts == { Concat(ps) : ps \in SeqsUpTo(TokenizePieces, MaxTokenizePieces) }

InitTokenize ==
    /\ custom_words = <<>>
    /\ abbreviations = <<>>
    /\ cfg = DefaultConfig
    /\ ex_built = FALSE
    /\ matcher = NewMatcher
    /\ segmenter = NewSegmenter
    /\ args \in [text : TokenizeTexts]
    /\ call = NoCall
    /\ ret = NoRet
    /\ llm_fallback = None
    /\ build_pc = Idle
    /\ corrections = <<>>
    /\ recorded = <<>>

Tokenize ==
    /\ call = NoCall
    /\ call' = [op |-> "tokenize"]
    /\ ret' = tokenize(args.text)
    /\ UNCHANGED <<custom_words, abbreviations, cfg, ex_built, matcher, segmenter, args,
                   llm_fallback, build_pc, corrections, recorded>>

NextTokenize == Tokenize

SpecTokenize == InitTokenize /\ [][NextTokenize]_vars

----------------------------------------------------------------------------
(* Properties.  call.op names the operation that produced ret; args holds *)
(* the arguments it was called with.                                      *)

NonIncreasing(cs) ==
    \A i \in 1..(Len(cs) - 1) : cs[i].score >= cs[i + 1].score

(* The index of the first candidate for word w in cs *)
FirstIndex(cs, w) ==
    CHOOSE i \in 1..Len(cs) :
        cs[i].word = w /\ \A j \in 1..(i - 1) : cs[j].word # w

(* Candidates of equal score stand in out in the order they have in inp *)
KeepsOrder(out, inp) ==
    \A i, j \in 1..Len(out) :
        (i < j /\ out[i].score = out[j].score)
            => FirstIndex(inp, out[i].word) < FirstIndex(inp, out[j].word)

(* C1 as stated: for every word w of the matcher's word table, match(w)   *)
(* returns a list whose first element has word w, tier Passthrough and    *)
(* score 1.0.                                                             *)
C1_EveryTableWord ==
    (call.op = "match" /\ HasKey(matcher.words, args.token))
        => /\ ret # <<>>
           /\ ret[1].word = args.token
           /\ ret[1].tier = "PASSTHROUGH"
           /\ ret[1].score = U

(* C1 amended: for every token whose lower-cased form is in the word      *)
(* table and is not a registered abbreviation key, match returns exactly  *)
(* one candidate: the lower-cased token, tier Passthrough, score 1.0.     *)
C1_ExactMatch ==
    (/\ call.op = "match"
     /\ HasKey(matcher.words, Lower(args.token))
     /\ ~ HasKey(matcher.abbr, Lower(args.token)))
        => /\ Len(ret) = 1
           /\ ret[1].word = Lower(args.token)
           /\ ret[1].tier = "PASSTHROUGH"
           /\ ret[1].score = U

(* match has returned the exact-match candidate for a custom word *)
C1_Witness ==
    /\ call.op = "match"
    /\ args.token = <<"a","b","b">>
    /\ HasKey(matcher.words, args.token)
    /\ ~ HasKey(get_words, args.token)
    /\ ret[1].tier = "PASSTHROUGH"

(* C2: every list match returns, and every list rescore returns for an    *)
(* input sorted by descending score, has non-increasing scores, and its   *)
(* candidates of equal score keep their first-discovered (for rescore:    *)
(* input) order.                                                          *)
C2_SortedStable ==
    /\ call.op = "match"
          => /\ NonIncreasing(ret)
             /\ KeepsOrder(ret, Discovered(cfg, matcher, Lower(args.token)))
    /\ (call.op = "rescore" /\ NonIncreasing(args.candidates))
          => /\ NonIncreasing(ret)
             /\ KeepsOrder(ret, args.candidates)

(* rescore has lifted a lower candidate to the score of the one before it *)
C2_Witness ==
    /\ call.op = "rescore"
    /\ NonIncreasing(args.candidates)
    /\ Len(ret) >= 2
    /\ args.candidates[1].score > args.candidates[2].score
    /\ ret[1].score = ret[2].score
    /\ ret[2].context_bonus > 0

C4_PickBestBelowMin ==
    call.op = "pick_best"
        => LET cs == args.candidates
               below == cs # <<>> /\ cs[1].score < (U \div 100) * cfg.min_confidence
           IN /\ (ret.best = None /\ ret.ambiguous) <=> below
              /\ (cs = <<>> => ret = [best |-> None, ambiguous |-> FALSE])
              /\ ((cs # <<>> /\ ~ below) => ret.best = Some(cs[1]))

(* pick_best has accepted a top score equal to min_confidence *)
C4_Witness ==
    /\ call.op = "pick_best"
    /\ Len(args.candidates) >= 2
    /\ args.candidates[1].score = (U \div 100) * cfg.min_confidence
    /\ ret.best = Some(args.candidates[1])

(* C5: when the top score is at least min_confidence, ambiguous is true   *)
(* exactly when a second candidate exists and top - second is strictly    *)
(* less than ambiguity_margin; a gap equal to the margin and a single     *)
(* candidate are not ambiguous.                                           *)
C5_AmbiguityMargin ==
    (/\ call.op = "pick_best"
     /\ args.candidates # <<>>
     /\ args.candidates[1].score >= (U \div 100) * cfg.min_confidence)
        => LET cs == args.candidates
               gap == cs[1].score - cs[2].score
           IN /\ ret.ambiguous <=>
                    (Len(cs) >= 2 /\ gap < (U \div 100) * cfg.ambiguity_margin)
              /\ (Len(cs) = 1 => ~ ret.ambiguous)
              /\ ((Len(cs) >= 2 /\ gap = (U \div 100) * cfg.ambiguity_margin)
                     => ~ ret.ambiguous)

(* pick_best has judged a gap exactly equal to the margin *)
C5_Witness ==
    /\ call.op = "pick_best"
    /\ Len(args.candidates) >= 2
    /\ args.candidates[1].score >= (U \div 100) * cfg.min_confidence
    /\ args.candidates[1].score - args.candidates[2].score
          = (U \div 100) * cfg.ambiguity_margin
    /\ ~ ret.ambiguous

(* The Levenshtein distance by its recurrence *)
RECURSIVE Levenshtein(_, _)
Levenshtein(s, t) ==
    IF s = <<>> THEN Len(t)
    ELSE IF t = <<>> THEN Len(s)
    ELSE IF Head(s) = Head(t) THEN Levenshtein(Tail(s), Tail(t))
    ELSE 1 + Min2(Levenshtein(Tail(s), Tail(t)),
                  Min2(Levenshtein(Tail(s), t), Levenshtein(s, Tail(t))))

(* C6 as stated: _edit_distance(s1, s2, b) is the Levenshtein distance    *)
(* when that is at most b, and exactly b + 1 whenever it exceeds b.       *)
C6_SentinelExact ==
    call.op = "_edit_distance"
        => ret = IF Levenshtein(args.s1, args.s2) <= args.max_dist
                 THEN Levenshtein(args.s1, args.s2)
                 ELSE args.max_dist + 1

(* C6 amended: _edit_distance(s1, s2, b) is the Levenshtein distance when *)
(* that is at most b; when it exceeds b the result exceeds b too, and is  *)
(* either b + 1 or the distance itself.                                   *)
C6_BoundedDistance ==
    call.op = "_edit_distance"
        => LET d == Levenshtein(args.s1, args.s2)
           IN IF d <= args.max_dist THEN ret = d
              ELSE ret > args.max_dist /\ ret \in {args.max_dist + 1, d}

(* _edit_distance has run all its rows and returned a distance two over   *)
(* the budget                                                             *)
C6_Witness ==
    /\ call.op = "_edit_distance"
    /\ Levenshtein(args.s1, args.s2) > args.max_dist
    /\ ret = args.max_dist + 2

(* The tokens of text are one expandable token whose text is text *)
SingleExpandableToken(text) ==
    /\ Len(tokenize(text)) = 1
    /\ tokenize(text)[1].expandable
    /\ tokenize(text)[1].text = text

(* C7 as stated: for every registered abbreviation a -> w where a is a    *)
(* single expandable token, expand(a) returns w.                          *)
C7_AbbreviationWins ==
    (call.op = "expand_detailed" /\ ~ args.spaceless)
        => \A i \in 1..Len(abbreviations) :
              (args.text = abbreviations[i].k /\ SingleExpandableToken(args.text))
                  => ret.expanded = abbreviations[i].v

(* expand has returned a registered abbreviation key unexpanded because   *)
(* the key is a known word                                                *)
C7_Witness ==
    /\ call.op = "expand_detailed"
    /\ ~ args.spaceless
    /\ args.text = <<"a","b">>
    /\ HasKey(abbreviations, args.text)
    /\ ret.expanded = args.text
    /\ ret.tokens[1].tier = "PASSTHROUGH"

(* The words of a text that is words separated by single spaces; a text   *)
(* of another shape has an empty string among them.                       *)
RECURSIVE SpaceSeparated(_, _)
SpaceSeparated(text, word) ==
    IF text = <<>> THEN <<word>>
    ELSE IF Head(text) = " " THEN <<word>> \o SpaceSeparated(Tail(text), <<>>)
    ELSE SpaceSeparated(Tail(text), Append(word, Head(text)))

CorpusWordsText(text) ==
    \A i \in 1..Len(SpaceSeparated(text, <<>>)) :
        HasKey(get_words, SpaceSeparated(text, <<>>)[i])

(* C8: with passthrough_known_words on, a text of lower-case corpus words *)
(* separated by single spaces is returned unchanged, every token with     *)
(* tier Passthrough and confidence 1.0.                                   *)
C8_KnownWordsUnchanged ==
    (/\ call.op = "expand_detailed"
     /\ ~ args.spaceless
     /\ cfg.passthrough_known_words
     /\ CorpusWordsText(args.text))
        => /\ ~ ret.raised
           /\ ret.expanded = args.text
           /\ Len(ret.tokens) = Len(SpaceSeparated(args.text, <<>>))
           /\ \A i \in 1..Len(ret.tokens) :
                 /\ ret.tokens[i].tier = "PASSTHROUGH"
                 /\ ret.tokens[i].confidence = U

(* expand has passed two corpus words through although one of them is a   *)
(* registered abbreviation key                                            *)
C8_Witness ==
    /\ call.op = "expand_detailed"
    /\ ~ args.spaceless
    /\ cfg.passthrough_known_words
    /\ args.text = <<"a"," ","a","b">>
    /\ HasKey(abbreviations, <<"a","b">>)
    /\ ret.expanded = args.text

(* C9: every non-expandable token passes through verbatim: its text is    *)
(* the output item at its position, the output is the items joined by     *)
(* single spaces, and its TokenResult has expanded = original,            *)
(* confidence 1.0 and tier Passthrough.                                   *)
C9_NonExpandableVerbatim ==
    (call.op = "expand_detailed" /\ ~ ret.raised)
        => /\ Len(ret.expanded_words) = Len(ret.source_tokens)
           /\ Len(ret.tokens) = Len(ret.source_tokens)
           /\ (ret.source_tokens # <<>>
                 => ret.expanded = Join(ret.expanded_words, <<" ">>))
           /\ \A i \in 1..Len(ret.source_tokens) :
                 ~ ret.source_tokens[i].expandable
                    => /\ ret.expanded_words[i] = ret.source_tokens[i].text
                       /\ ret.tokens[i].original = ret.source_tokens[i].text
                       /\ ret.tokens[i].expanded = ret.source_tokens[i].text
                       /\ ret.tokens[i].confidence = U
                       /\ ret.tokens[i].tier = "PASSTHROUGH"

(* expand has passed a back-tick span through between two other tokens *)
C9_Witness ==
    /\ call.op = "expand_detailed"
    /\ ~ ret.raised
    /\ Len(ret.source_tokens) = 3
    /\ ~ ret.source_tokens[2].expandable
    /\ ret.source_tokens[2].text = <<Backtick, "a", " ", "b", Backtick>>
    /\ ret.source_tokens[1].expandable
    /\ ret.expanded_words[2] = ret.source_tokens[2].text

ExpansionChoices == { <<>>, <<"a">>, <<"c","a","b">> }

(* C10: with_expansion(x) is leading_punct + x + trailing_punct for every *)
(* x, and the output item of each expandable token is its leading         *)
(* punctuation + the chosen or echoed word + its trailing punctuation.    *)
C10_PunctuationKept ==
    (call.op = "expand_detailed" /\ ~ ret.raised)
        => \A i \in 1..Len(ret.source_tokens) :
              LET token == ret.source_tokens[i]
              IN /\ \A x \in ExpansionChoices :
                       with_expansion(token, x)
                           = token.leading_punct \o x \o token.trailing_punct
                 /\ token.expandable
                       => ret.expanded_words[i]
                            = token.leading_punct \o ret.tokens[i].expanded
                                \o token.trailing_punct

(* expand has replaced a token that carries punctuation on both sides *)
C10_Witness ==
    /\ call.op = "expand_detailed"
    /\ ~ ret.raised
    /\ \E i \in 1..Len(ret.source_tokens) :
          /\ ret.source_tokens[i].expandable
          /\ ret.source_tokens[i].leading_punct # <<>>
          /\ ret.source_tokens[i].trailing_punct # <<>>
          /\ ret.tokens[i].expanded # ret.source_tokens[i].text

(* C11 as stated: match called with the empty token returns an empty      *)
(* candidate list.                                                        *)
C11_EmptyTokenEmptyList ==
    (call.op = "match" /\ args.token = <<>>) => ret = <<>>

(* match has answered the empty token with the most frequent words of the *)
(* table as prefix candidates of prefix score 0                           *)
C11_Witness ==
    /\ call.op = "match"
    /\ args.token = <<>>
    /\ Len(ret) = Len(matcher.words)
    /\ \A i \in 1..Len(ret) : ret[i].tier = "PREFIX" /\ ret[i].prefix_score = 0
    /\ ret[1].word = <<"a">>

(* The dictionary-only run of the call that was made: expand_detailed on  *)
(* the same text and mode, over the same built index                      *)
DictionaryRun ==
    expand_detailed(cfg, matcher, segmenter, call.text, call.spaceless)

(* The call reached phase 4 with a fallback configured and LLM enabled *)
LlmConsulted ==
    /\ call.op = "expand_detailed"
    /\ llm_fallback # None
    /\ cfg.llm_enabled
    /\ ~ DictionaryRun.raised
    /\ DictionaryRun.source_tokens # <<>>

(* C12: if the provider call fails, expand_detailed still returns, its    *)
(* expanded text, token results and ambiguity flags are those of the      *)
(* dictionary-only run on the same input, and llm_used is false.          *)
C12_LlmFailureNonFatal ==
    (call.op = "expand_detailed" /\ call.outcome = ProviderRaises)
        => /\ ~ ret.raised
           /\ ret.expanded = DictionaryRun.expanded
           /\ ret.tokens = DictionaryRun.tokens
           /\ ~ ret.llm_used

(* the provider was called and raised, on a text with an ambiguous token *)
C12_Witness ==
    /\ LlmConsulted
    /\ call.outcome = ProviderRaises
    /\ ret.llm_calls = 1
    /\ \E i \in 1..Len(ret.tokens) :
          ret.tokens[i].ambiguous /\ ret.tokens[i].expanded # ret.tokens[i].original

(* C13: one expand_detailed call calls provider.complete at most once,    *)
(* and not at all when LLM is disabled, no fallback is configured, or the *)
(* input is empty or whitespace-only.                                     *)
C13_AtMostOneCompletion ==
    call.op = "expand_detailed"
        => /\ ret.llm_calls <= 1
           /\ (~ cfg.llm_enabled \/ llm_fallback = None \/ Strip(call.text) = <<>>)
                 => ret.llm_calls = 0

(* the one polish call replaced the text of an expansion that had an      *)
(* ambiguous token, and no further call followed                          *)
C13_Witness ==
    /\ LlmConsulted
    /\ ret.llm_used
    /\ ret.llm_calls = 1
    /\ DictionaryRun.ambiguous_indices # <<>>

(* The polish call succeeded with a text other than the dictionary        *)
(* expansion                                                              *)
PolishChangedText ==
    /\ LlmConsulted
    /\ call.outcome.kind = "return"
    /\ polish(call.text, DictionaryRun.expanded, call.outcome).text
           # DictionaryRun.expanded

(* C14: a token is llm_resolved only if the polish succeeded with a text  *)
(* other than the dictionary expansion and the token had been flagged     *)
(* ambiguous; in that outcome every token that was ambiguous ends         *)
(* llm_resolved and not ambiguous, and llm_used is true.  In every other  *)
(* outcome no token is llm_resolved and llm_used is false.                *)
C14_LlmResolvedOnlyByPolish ==
    (call.op = "expand_detailed" /\ ~ ret.raised)
        => IF PolishChangedText
           THEN /\ ret.llm_used
                /\ Len(ret.tokens) = Len(DictionaryRun.tokens)
                /\ \A i \in 1..Len(ret.tokens) :
                      /\ ret.tokens[i].llm_resolved = DictionaryRun.tokens[i].ambiguous
                      /\ ~ ret.tokens[i].ambiguous
           ELSE /\ ~ ret.llm_used
                /\ \A i \in 1..Len(ret.tokens) : ~ ret.tokens[i].llm_resolved

(* the polish changed the text of an expansion with an ambiguous token    *)
(* next to one that was not ambiguous                                     *)
C14_Witness ==
    /\ PolishChangedText
    /\ ret.llm_used
    /\ \E i, j \in 1..Len(ret.tokens) :
          /\ DictionaryRun.tokens[i].ambiguous
          /\ ret.tokens[i].llm_resolved
          /\ ~ DictionaryRun.tokens[j].ambiguous
          /\ ~ ret.tokens[j].llm_resolved

(* match answers the key of the abbreviation ab with its target *)
TreatedAsAbbreviation(m, ab) ==
    /\ Len(match(cfg, m, ab.k)) = 1
    /\ match(cfg, m, ab.k)[1].word = ab.v
    /\ match(cfg, m, ab.k)[1].tier = "EXACT"

(* C15 as stated: add_words(m) and add_abbreviations(m) mark the index    *)
(* stale, and the very next expand_detailed rebuilds the Matcher, so that *)
(* every key of m is a known word, or an abbreviation that match answers  *)
(* with its target.                                                       *)
C15_NextExpandKnowsEveryKey ==
    [][ /\ call'.op \in {"add_words", "add_abbreviations"} => ~ ex_built'
        /\ (call.op = "add_words" /\ call'.op = "expand_detailed")
              => /\ matcher' = Build(<<>>, <<>>, custom_words, abbreviations)
                 /\ \A key \in Keys(call.words) : is_known_word(matcher'.words, key)
        /\ (call.op = "add_abbreviations" /\ call'.op = "expand_detailed")
              => /\ matcher' = Build(<<>>, <<>>, custom_words, abbreviations)
                 /\ \A i \in 1..Len(call.abbreviations) :
                       TreatedAsAbbreviation(matcher', call.abbreviations[i])
      ]_vars

(* C15, the part that holds: add_words(m) and add_abbreviations(m) mark   *)
(* the index stale, and the very next expand_detailed rebuilds the        *)
(* Matcher from the registrations, so that every key of m is in its word  *)
(* table or abbreviation table, and every lower-case key of m is a known  *)
(* word, or an abbreviation that match answers with its target.           *)
C15_NextExpandRebuilds ==
    [][ /\ call'.op \in {"add_words", "add_abbreviations"} => ~ ex_built'
        /\ (call.op = "add_words" /\ call'.op = "expand_detailed")
              => /\ ex_built' /\ matcher'.built
                 /\ matcher' = Build(<<>>, <<>>, custom_words, abbreviations)
                 /\ \A key \in Keys(call.words) :
                       /\ HasKey(matcher'.words, key)
                       /\ key = Lower(key) => is_known_word(matcher'.words, key)
        /\ (call.op = "add_abbreviations" /\ call'.op = "expand_detailed")
              => /\ ex_built' /\ matcher'.built
                 /\ matcher' = Build(<<>>, <<>>, custom_words, abbreviations)
                 /\ \A i \in 1..Len(call.abbreviations) :
                       /\ HasKey(matcher'.abbr, call.abbreviations[i].k)
                       /\ call.abbreviations[i].k = Lower(call.abbreviations[i].k)
                             => TreatedAsAbbreviation(matcher', call.abbreviations[i])
      ]_vars

(* add_abbreviations has registered an upper-case key between two         *)
(* expand_detailed calls: the index built by the first call is stale      *)
C15_Witness ==
    /\ call.op = "add_abbreviations"
    /\ HasKey(call.abbreviations, <<"K","1">>)
    /\ matcher.built
    /\ ~ ex_built

(* C16 as stated: a match or is_known_word that runs while the index is   *)
(* being rebuilt reads the complete old index or the complete new index   *)
(* (word table, abbreviations, trie, max frequency), never a partially    *)
(* rebuilt one.                                                           *)
C16_ReaderSeesWholeIndex ==
    call.op \in {"match", "is_known_word"} => call.index \in {OldIndex, NewIndex}

(* match has read an index whose word table is rebuilt and whose trie is  *)
(* not, and has returned a list that neither the old nor the new index    *)
(* gives for the token                                                    *)
C16_Witness ==
    /\ call.op = "match"
    /\ call.index.words = NewIndex.words
    /\ call.index.trie # NewIndex.trie
    /\ ret # match(cfg, OldIndex, args.token)
    /\ ret # match(cfg, NewIndex, args.token)

(* The statements of build, run to the end, give the index Build gives *)
BuildStepsGiveBuild == build_pc = "done" => matcher = NewIndex

(* C17: expand_detailed returns a result and never raises, for every      *)
(* text, in normal and in spaceless mode, with or without an LLM          *)
(* fallback; an empty or whitespace-only text is returned unchanged with  *)
(* an empty token list.                                                   *)
C17_NeverRaises ==
    call.op = "expand_detailed"
        => /\ ~ ret.raised
           /\ ret.input = call.text
           /\ Strip(call.text) = <<>>
                 => ret.expanded = call.text /\ ret.tokens = <<>>

(* a spaceless call whose text holds characters that start no word has    *)
(* returned, with each of them as a segment of its own, after the         *)
(* provider it consulted raised                                           *)
C17_Witness ==
    /\ LlmConsulted
    /\ call.spaceless
    /\ call.outcome = ProviderRaises
    /\ ~ ret.raised
    /\ ret.segments = Some(<< <<"(">>, <<"!">> >>)

(* The sum of the confidences of the first n tokens of a report *)
RECURSIVE ConfidenceTotal(_, _)
ConfidenceTotal(tokens, n) ==
    IF n = 0 THEN 0 ELSE ConfidenceTotal(tokens, n - 1) + tokens[n].confidence

(* C18 as stated: the report's overall confidence is the arithmetic mean  *)
(* of all per-token confidences, non-expandable and known-word            *)
(* passthrough tokens counting 1.0, and is 0.0 when there are no tokens.  *)
C18_ConfidenceIsMean ==
    (call.op = "expand_detailed" /\ ~ ret.raised)
        => /\ ret.tokens = <<>> => ret.confidence.num = 0
           /\ ret.tokens # <<>>
                 => ret.confidence.num * Len(ret.tokens)
                      = ConfidenceTotal(ret.tokens, Len(ret.tokens)) * ret.confidence.den
           /\ \A i \in 1..Len(ret.tokens) :
                 \/ ~ ret.source_tokens[i].expandable
                 \/ /\ cfg.passthrough_known_words
                    /\ is_known_word(matcher.words, ret.source_tokens[i].text)
                 => ret.tokens[i].confidence = U

(* with passthrough_known_words off, two known words have each taken a   *)
(* context bonus from the other: both tokens have tier Passthrough and a  *)
(* confidence above 1.0, and the report's confidence is 1.0               *)
C18_Witness ==
    /\ call.op = "expand_detailed"
    /\ ~ ret.raised
    /\ ~ cfg.passthrough_known_words
    /\ Len(ret.tokens) = 2
    /\ \A i \in 1..2 :
          ret.tokens[i].tier = "PASSTHROUGH" /\ ret.tokens[i].confidence > U
    /\ ret.confidence = [num |-> U, den |-> 1]

(* The response without the whitespace at its two ends: the part from i   *)
(* to j that has only whitespace before and after it and none at its own  *)
(* ends                                                                   *)
Trimmed(r) ==
    LET ends == { p \in (1..(Len(r) + 1)) \X (0..Len(r)) :
                    /\ p[1] <= p[2] + 1
                    /\ \A k \in 1..(p[1] - 1) : r[k] \in Spaces
                    /\ \A k \in (p[2] + 1)..Len(r) : r[k] \in Spaces
                    /\ p[1] <= p[2] => r[p[1]] \notin Spaces /\ r[p[2]] \notin Spaces }
        e == CHOOSE p \in ends : TRUE
    IN  SubSeq(r, e[1], e[2])

(* One layer of surrounding double quotes taken off *)
Unquoted(t) ==
    IF Len(t) >= 2 /\ Head(t) = Quote /\ t[Len(t)] = Quote
    THEN SubSeq(t, 2, Len(t) - 1)
    ELSE t

(* The provider's response, trimmed and unquoted, is empty or longer than *)
(* three times the dictionary expansion                                   *)
ResponseRejected ==
    LET s == Unquoted(Trimmed(call.outcome.text))
    IN  s = <<>> \/ Len(s) > 3 * Len(DictionaryRun.expanded)

(* C19: polish returns the dictionary expansion unchanged whenever the    *)
(* provider's response, after trimming whitespace and stripping one layer *)
(* of surrounding double quotes, is empty or longer than three times the  *)
(* expansion, and otherwise returns that sanitized response; when the     *)
(* response is rejected, expand_detailed reports llm_used false and       *)
(* leaves every ambiguity flag as the dictionary run set it.              *)
C19_PolishSanitizes ==
    (LlmConsulted /\ call.outcome.kind = "return")
        => /\ polish(call.text, DictionaryRun.expanded, call.outcome)
                = [raised |-> FALSE,
                   text |-> IF ResponseRejected
                            THEN DictionaryRun.expanded
                            ELSE Unquoted(Trimmed(call.outcome.text))]
           /\ ResponseRejected
                 => /\ ~ ret.raised
                    /\ ~ ret.llm_used
                    /\ ret.expanded = DictionaryRun.expanded
                    /\ ret.tokens = DictionaryRun.tokens

(* the provider answered a quoted text longer than three times the        *)
(* expansion of a text with an ambiguous token; the report is the         *)
(* dictionary's, the token still ambiguous                                *)
C19_Witness ==
    /\ LlmConsulted
    /\ call.outcome.kind = "return"
    /\ Unquoted(Trimmed(call.outcome.text)) # <<>>
    /\ ResponseRejected
    /\ ret.llm_calls = 1
    /\ ~ ret.llm_used
    /\ \E i \in 1..Len(ret.tokens) :
          ret.tokens[i].ambiguous /\ ret.tokens[i].expanded # ret.tokens[i].original

(* C20 as stated: for every text that is a word of the segmenter's word   *)
(* table no longer than max_word_length, segment returns the single       *)
(* segment [text].                                                        *)
C20_WordIsOneSegment ==
    (/\ call.op = "segment"
     /\ HasKey(segmenter.words, args.text)
     /\ args.text = Lower(args.text)
     /\ Len(args.text) <= cfg.max_word_length)
        => ret = [raised |-> FALSE, segments |-> <<args.text>>]

(* segment has cut the word "aab" into the words "a" and "ab" *)
C20_Witness ==
    /\ call.op = "segment"
    /\ HasKey(segmenter.words, args.text)
    /\ args.text = <<"a","a","b">>
    /\ cfg.max_word_length = 20
    /\ ret = [raised |-> FALSE, segments |-> << <<"a">>, <<"a","b">> >>]

(* How many of the corrections recorded since the last clear are of the   *)
(* abbreviation a, and how many of those to the word w, letter case apart *)
RecordedFor(a) ==
    Cardinality({ i \in 1..Len(recorded) :
                    Lower(recorded[i].abbreviation) = Lower(a) })

RecordedTo(a, w) ==
    Cardinality({ i \in 1..Len(recorded) :
                    /\ Lower(recorded[i].abbreviation) = Lower(a)
                    /\ Lower(recorded[i].correct_word) = Lower(w) })

(* C21: after any sequence of record_correction and clear calls,          *)
(* get_boost(a, w) lies in [0.0, 0.3] and is 0.3 times the number of      *)
(* corrections of a to w over the number of corrections recorded for a,   *)
(* or 0.0 when none is recorded for a, abbreviation and word compared     *)
(* case-insensitively.                                                    *)
C21_BoostIsShareOfCorrections ==
    call.op = "get_boost"
        => /\ ret.den > 0
           /\ 0 <= ret.num
           /\ 10 * ret.num <= 3 * ret.den
           /\ IF RecordedFor(call.abbreviation) = 0
              THEN ret.num = 0
              ELSE ret.num * 10 * RecordedFor(call.abbreviation)
                     = 3 * RecordedTo(call.abbreviation, call.word) * ret.den

(* after three corrections of k, in either case, two of them to cab in    *)
(* either case, get_boost("K", "cab") has returned 0.2                    *)
C21_Witness ==
    /\ call = [op |-> "get_boost", abbreviation |-> <<"K">>, word |-> <<"c","a","b">>]
    /\ Len(recorded) = 3
    /\ recorded[1] = [abbreviation |-> <<"k">>, correct_word |-> <<"C","a","b">>]
    /\ recorded[2].correct_word = <<"b","a">>
    /\ recorded[3] = [abbreviation |-> <<"K">>, correct_word |-> <<"c","a","b">>]
    /\ RecordedFor(<<"K">>) = 3
    /\ ret.num * 10 = 2 * ret.den

(* The token at i of the report is expandable and is not passed through   *)
(* as a known word                                                        *)
IsMatchedToken(i) ==
    /\ ret.source_tokens[i].expandable
    /\ ~ (cfg.passthrough_known_words
            /\ is_known_word(matcher.words, ret.source_tokens[i].text))

(* What match returns for the token at i, and what pick_best returns for  *)
(* these candidates rescored in the token's context                       *)
TokenCandidates(i) == match(cfg, matcher, ret.source_tokens[i].text)

TokenPick(i) ==
    pick_best(cfg, rescore(cfg, TokenCandidates(i),
                           _get_prev_expanded(SubSeq(ret.tokens, 1, i - 1)),
                           _peek_next_token(matcher, ret.source_tokens, i)))

(* C22: an expandable token that is not passed through as a known word    *)
(* has, when match returns no candidates, expanded = original, confidence *)
(* 0.0 and ambiguous false; when pick_best returns no best, expanded =    *)
(* original, confidence 0.0 and ambiguous true; otherwise the word, score *)
(* and tier of the best candidate and pick_best's ambiguity flag.  There  *)
(* is one TokenResult per token, in token order.                          *)
C22_TokenResultPerOutcome ==
    (call.op = "expand_detailed" /\ ~ ret.raised)
        => /\ Len(ret.tokens) = Len(ret.source_tokens)
           /\ \A i \in 1..Len(ret.tokens) :
                 /\ ret.tokens[i].original = ret.source_tokens[i].text
                 /\ IsMatchedToken(i)
                       => IF TokenCandidates(i) = <<>>
                          THEN /\ ret.tokens[i].expanded = ret.tokens[i].original
                               /\ ret.tokens[i].confidence = 0
                               /\ ~ ret.tokens[i].ambiguous
                          ELSE IF TokenPick(i).best = None
                          THEN /\ ret.tokens[i].expanded = ret.tokens[i].original
                               /\ ret.tokens[i].confidence = 0
                               /\ ret.tokens[i].ambiguous
                          ELSE /\ ret.tokens[i].expanded = TokenPick(i).best[1].word
                               /\ ret.tokens[i].confidence = TokenPick(i).best[1].score
                               /\ ret.tokens[i].tier = TokenPick(i).best[1].tier
                               /\ ret.tokens[i].ambiguous = TokenPick(i).ambiguous

(* a report of two tokens, both matched: the candidates of the first did  *)
(* not reach min_confidence, and it stands as it was, flagged ambiguous   *)
C22_Witness ==
    /\ call.op = "expand_detailed"
    /\ ~ ret.raised
    /\ Len(ret.tokens) = 2
    /\ IsMatchedToken(1)
    /\ IsMatchedToken(2)
    /\ TokenCandidates(1) # <<>>
    /\ TokenPick(1).best = None
    /\ ret.tokens[1].ambiguous
    /\ ret.tokens[1].expanded = ret.tokens[1].original

(* a matched token was expanded to the best candidate, another word *)
C22_ExpandedReached ==
    /\ call.op = "expand_detailed"
    /\ ~ ret.raised
    /\ \E i \in 1..Len(ret.tokens) :
          /\ IsMatchedToken(i)
          /\ TokenCandidates(i) # <<>>
          /\ TokenPick(i).best # None
          /\ ret.tokens[i].expanded # ret.tokens[i].original

(* a matched token for which match returned no candidates *)
C22_NoCandidatesReached ==
    /\ call.op = "expand_detailed"
    /\ ~ ret.raised
    /\ \E i \in 1..Len(ret.tokens) : IsMatchedToken(i) /\ TokenCandidates(i) = <<>>

(* The fragment is digits, then at most one point, then digits or nothing *)
NumericFragment(f) ==
    \E d \in 1..Len(f) :
        /\ \A k \in 1..d : f[k] \in Digits
        /\ \/ d = Len(f)
           \/ /\ f[d + 1] = "."
              /\ \A k \in (d + 2)..Len(f) : f[k] \in Digits

PunctuationChars == LeadingPunctChars \cup TrailingPunctChars

OnlyPunctuation(f) == \A k \in 1..Len(f) : f[k] \in PunctuationChars

HasLetter(w) == \E k \in 1..Len(w) : w[k] \in Letters

(* tokenize was called on a text without protected spans: its tokens come *)
(* from the whitespace-delimited fragments alone                          *)
FragmentsTokenized ==
    /\ call.op = "tokenize"
    /\ Protected(args.text) = <<>>

(* The first two parts of C23: one token per fragment; a numeric fragment *)
(* is one non-expandable token; any other token is the fragment between   *)
(* its leading and trailing punctuation and is expandable exactly if it   *)
(* is alphabetic, or alphanumeric with a letter.                          *)
C23_NumbersAndCores ==
    FragmentsTokenized
        => /\ Len(ret) = Len(Split(args.text, 0))
           /\ \A i \in 1..Len(ret) :
                 IF NumericFragment(Split(args.text, 0)[i])
                 THEN ret[i] = Token(Split(args.text, 0)[i], FALSE, <<>>, <<>>)
                 ELSE /\ \/ ret[i].leading_punct \o ret[i].text \o ret[i].trailing_punct
                               = Split(args.text, 0)[i]
                         \/ OnlyPunctuation(Split(args.text, 0)[i])
                      /\ \A k \in 1..Len(ret[i].leading_punct) :
                            ret[i].leading_punct[k] \in LeadingPunctChars
                      /\ \A k \in 1..Len(ret[i].trailing_punct) :
                            ret[i].trailing_punct[k] \in TrailingPunctChars
                      /\ ret[i].expandable
                            <=> \/ IsAlpha(ret[i].text)
                                \/ IsAlnum(ret[i].text) /\ HasLetter(ret[i].text)

(* C23 as stated: in tokenize a numeric fragment is non-expandable; any   *)
(* other core token is expandable iff it is alphabetic or alphanumeric    *)
(* with a letter; and a fragment of punctuation only becomes one          *)
(* non-expandable token whose text is the concatenated punctuation.       *)
C23_FragmentTokens ==
    /\ C23_NumbersAndCores
    /\ FragmentsTokenized
          => \A i \in 1..Len(ret) :
                (i <= Len(Split(args.text, 0)) /\ OnlyPunctuation(Split(args.text, 0)[i]))
                    => /\ ~ ret[i].expandable
                       /\ ret[i].text = Split(args.text, 0)[i]

(* tokenize("(.(") has returned one token with the text ".(" and the      *)
(* leading punctuation "("                                                *)
C23_Witness ==
    /\ call.op = "tokenize"
    /\ args.text = <<"(", ".", "(">>
    /\ ret = << Token(<<".", "(">>, FALSE, <<"(">>, <<>>) >>

(* match went through the prefix and fuzzy tiers: the token is neither an *)
(* abbreviation key nor a word                                            *)
TiersSearched ==
    /\ call.op = "match"
    /\ ~ HasKey(matcher.abbr, Lower(args.token))
    /\ ~ HasKey(matcher.words, Lower(args.token))

(* What the two tiers found for the token, before the merge *)
Found == Discovered(cfg, matcher, Lower(args.token))

(* C24: match never returns the same word twice; the candidates of the    *)
(* prefix and fuzzy tiers are merged by word, and the entry kept for a    *)
(* word carries the highest score any tier produced for it.               *)
C24_MergedByWord ==
    call.op = "match"
        => /\ \A i, j \in 1..Len(ret) : ret[i].word = ret[j].word => i = j
           /\ TiersSearched
                 => /\ {ret[i].word : i \in 1..Len(ret)}
                          = {Found[k].word : k \in 1..Len(Found)}
                    /\ \A i \in 1..Len(ret) :
                          /\ \E k \in 1..Len(Found) : Found[k] = ret[i]
                          /\ \A k \in 1..Len(Found) :
                                Found[k].word = ret[i].word
                                    => Found[k].score <= ret[i].score

(* the prefix tier and the fuzzy tier both found a word, with different   *)
(* scores, and match has returned it once, with the higher one            *)
C24_Witness ==
    /\ TiersSearched
    /\ \E k1, k2 \in 1..Len(Found) :
          /\ Found[k1].word = Found[k2].word
          /\ Found[k1].tier = "PREFIX"
          /\ Found[k2].tier = "FUZZY"
          /\ Found[k1].score > Found[k2].score
          /\ \E i \in 1..Len(ret) : ret[i] = Found[k1]

(* Every way of cutting text into pieces of at most max_len characters *)
RECURSIVE AllSplits(_, _)
AllSplits(text, max_len) ==
    IF text = <<>> THEN { <<>> }
    ELSE UNION { { <<SubSeq(text, 1, k)>> \o rest :
                     rest \in AllSplits(SubSeq(text, k + 1, Len(text)), max_len) } :
                 k \in 1..Min2(max_len, Len(text)) }

(* The word a piece resolves to: the word matched for it, or itself *)
ResolvedWord(piece) ==
    IF _score_substring(segmenter, piece).word # None
    THEN _score_substring(segmenter, piece).word[1]
    ELSE piece

(* The bigram bonus the piece at i takes from the piece before it *)
PieceBonus(pieces, i) ==
    IF i > 1 /\ _score_substring(segmenter, pieces[i]).word # None
    THEN BigramBonus(segmenter,
                     ResolvedWord(pieces[i - 1]) \o <<"_">> \o ResolvedWord(pieces[i]))
    ELSE 0

(* The total score of the first n pieces: their substring scores and the  *)
(* bigram bonuses between neighbours                                      *)
RECURSIVE TotalScore(_, _)
TotalScore(pieces, n) ==
    IF n = 0 THEN 0
    ELSE TotalScore(pieces, n - 1)
           + _score_substring(segmenter, pieces[n]).score + PieceBonus(pieces, n)

Scorable(pieces) ==
    \A i \in 1..Len(pieces) : _score_substring(segmenter, pieces[i]).score > NoMatchScore

(* The segmentations segment chooses among for the text of the call *)
Segmentations ==
    { pieces \in AllSplits(Strip(Lower(args.text)), cfg.max_word_length) :
        Scorable(pieces) }

(* C25 as stated: segment returns an optimal segmentation: the total      *)
(* score of the returned segments is the maximum over all segmentations   *)
(* of the text into scorable substrings of at most max_word_length        *)
(* characters.                                                            *)
C25_SegmentationIsOptimal ==
    (call.op = "segment" /\ ~ ret.raised)
        => /\ ret.segments \in Segmentations
           /\ \A pieces \in Segmentations :
                 TotalScore(pieces, Len(pieces))
                     <= TotalScore(ret.segments, Len(ret.segments))

(* segment("caac") has returned caa, c although ca, a, c scores higher:   *)
(* its last piece takes the bigram bonus of a_cab                         *)
C25_Witness ==
    /\ call.op = "segment"
    /\ custom_words = <<>>
    /\ args.text = <<"c","a","a","c">>
    /\ ret = [raised |-> FALSE, segments |-> << <<"c","a","a">>, <<"c">> >>]
    /\ << <<"c","a">>, <<"a">>, <<"c">> >> \in Segmentations
    /\ TotalScore(<< <<"c","a">>, <<"a">>, <<"c">> >>, 3) > TotalScore(ret.segments, 2)

(* The DP table of the call: best[0..n] for the lower-cased, stripped text *)
DpTable ==
    SegFill(segmenter, Strip(Lower(args.text)),
            << Some([score |-> 0, back |-> 0, word |-> <<>>]) >>, 1,
            Min2(cfg.max_word_length, Len(Strip(Lower(args.text)))))

(* C26: for every text and max_word_length >= 1 the DP fills best[i] at   *)
(* every position 0..n, every single character being scorable; segment   *)
(* does not raise SegmentationError, the backtracking from n reaches 0,   *)
(* and every returned segment has between 1 and max_word_length           *)
(* characters.                                                            *)
C26_DpAlwaysCompletes ==
    (call.op = "segment" /\ cfg.max_word_length >= 1)
        => /\ \A k \in 1..Len(Strip(Lower(args.text))) :
                 _score_substring(segmenter, <<Strip(Lower(args.text))[k]>>).score
                     > NoMatchScore
           /\ Len(DpTable) = Len(Strip(Lower(args.text))) + 1
           /\ \A i \in 1..Len(DpTable) : DpTable[i] # None
           /\ ~ ret.raised
           /\ Concat(ret.segments) = Strip(Lower(args.text))
           /\ \A i \in 1..Len(ret.segments) :
                 /\ 1 <= Len(ret.segments[i])
                 /\ Len(ret.segments[i]) <= cfg.max_word_length

(* under max_word_length 2, a text of four characters with a space, which *)
(* starts no word and scores the fallback -2.0, has come back in segments *)
(* of one and two characters                                              *)
C26_Witness ==
    /\ call.op = "segment"
    /\ cfg.max_word_length = 2
    /\ Len(Strip(Lower(args.text))) = 4
    /\ ~ ret.raised
    /\ \E i \in 1..Len(ret.segments) :
          /\ ret.segments[i] = <<" ">>
          /\ _score_substring(segmenter, <<" ">>).score = 0 - 2 * SU
    /\ \E i \in 1..Len(ret.segments) : Len(ret.segments[i]) = 2

(* The characters of the tokens, in order: leading punctuation, text and  *)
(* trailing punctuation of each                                           *)
RECURSIVE EmittedChars(_)
EmittedChars(tokens) ==
    IF tokens = <<>> THEN <<>>
    ELSE Head(tokens).leading_punct \o Head(tokens).text \o Head(tokens).trailing_punct
           \o EmittedChars(Tail(tokens))

WithoutSpaces(text) == SelectSeq(text, LAMBDA ch : ch \notin Spaces)

(* C27 as stated: tokenize covers the input exactly once: the scan        *)
(* position, which goes from 0 to the end of each protected span in turn, *)
(* never moves backwards, and the characters of the tokens in order are   *)
(* those of the input without the whitespace between tokens, also when    *)
(* protected spans overlap or nest.  Whitespace inside a protected span   *)
(* belongs to its token, so the two sides are compared without any        *)
(* whitespace.                                                            *)
C27_CoversInputOnce ==
    call.op = "tokenize"
        => /\ \A k \in 1..(Len(Protected(args.text)) - 1) :
                 Protected(args.text)[k].end <= Protected(args.text)[k + 1].end
           /\ WithoutSpaces(EmittedChars(ret)) = WithoutSpaces(args.text)

(* tokenize of a URL that holds a code span has returned the URL and then *)
(* the code span again                                                    *)
C27_Witness ==
    /\ call.op = "tokenize"
    /\ args.text = <<"w","w","w",".",Backtick,"a",Backtick>>
    /\ Len(Protected(args.text)) = 2
    /\ Protected(args.text)[2].start < Protected(args.text)[1].end
    /\ ret = << Token(args.text, FALSE, <<>>, <<>>),
                Token(<<Backtick,"a",Backtick>>, FALSE, <<>>, <<>>) >>

WeightsSumToOne ==
    cfg.weight_prefix + cfg.weight_edit + cfg.weight_frequency + cfg.weight_length = 100

(* C28 as stated: every per-token confidence and the overall confidence   *)
(* of every report lie in [0, 1], for every input and every configuration *)
(* whose scoring weights sum to 1, context rescoring included.            *)
C28_ConfidenceInUnitInterval ==
    (call.op = "expand_detailed" /\ ~ ret.raised /\ WeightsSumToOne)
        => /\ \A i \in 1..Len(ret.tokens) :
                 0 <= ret.tokens[i].confidence /\ ret.tokens[i].confidence <= U
           /\ 0 <= ret.confidence.num
           /\ ret.confidence.num <= U * ret.confidence.den

(* under the default configuration a token was expanded with a           *)
(* confidence above 1.0 after taking a context bonus, and the report's    *)
(* confidence is above 1.0 as well                                        *)
C28_Witness ==
    /\ call.op = "expand_detailed"
    /\ ~ ret.raised
    /\ cfg = DefaultConfig
    /\ \E i \in 1..Len(ret.tokens) :
          /\ ret.tokens[i].confidence > U
          /\ ret.tokens[i].candidates # <<>>
          /\ ret.tokens[i].candidates[1].context_bonus > 0
    /\ ret.confidence.num > U * ret.confidence.den

(* The output candidate r is the input candidate c with nothing but a     *)
(* bonus added                                                            *)
SameButBonus(c, r) ==
    /\ r.word = c.word
    /\ r.score >= c.score
    /\ r.tier = c.tier
    /\ r.prefix_score = c.prefix_score
    /\ r.edit_similarity = c.edit_similarity
    /\ r.frequency = c.frequency
    /\ r.length_penalty = c.length_penalty

(* C29: rescore only adds bonuses: its output has the length and the      *)
(* words of its input, every candidate scores at least what it did, its   *)
(* fields word, tier, prefix_score, edit_similarity, frequency and        *)
(* length_penalty are as they were, and with no context word or an empty  *)
(* list the input comes back unchanged.  The input list stays as it was:  *)
(* the arguments are the same after the call.                             *)
C29_RescoreOnlyAddsBonus ==
    call.op = "rescore"
        => /\ Len(ret) = Len(args.candidates)
           /\ {ret[j].word : j \in 1..Len(ret)}
                 = {args.candidates[i].word : i \in 1..Len(args.candidates)}
           /\ \A i \in 1..Len(args.candidates) :
                 \E j \in 1..Len(ret) : SameButBonus(args.candidates[i], ret[j])
           /\ (args.candidates = <<>> \/ (args.prev_word = None /\ args.next_word = None))
                 => ret = args.candidates

(* rescore has moved a candidate that took a bonus ahead of one that      *)
(* scored higher before, and left the other as it was                     *)
C29_Witness ==
    /\ call.op = "rescore"
    /\ Len(args.candidates) = 2
    /\ args.candidates[1].score > args.candidates[2].score
    /\ ret[1].word = args.candidates[2].word
    /\ ret[1].score > args.candidates[2].score
    /\ ret[1].context_bonus > 0
    /\ ret[2] = args.candidates[1]

(* ---------------------------------------------------------------------- *)
(* C30                                                                    *)
(* ---------------------------------------------------------------------- *)

(* The last call was a spaceless expand that reached Segmenter.segment *)
SpacelessExpandDone ==
    /\ call.op = "expand_detailed"
    /\ call.spaceless
    /\ ~ (call.text = <<>> \/ Strip(call.text) = <<>>)

(* The segmenter a fresh Expander with the current custom words would use *)
FreshSegmenter == _load(custom_words)

(* C30: after every spaceless expand, whatever add_words and expand calls  *)
(* came before it, the segmenter's word table equals the matcher's word    *)
(* table (the corpus updated with all custom words added so far), and the  *)
(* report is the one a segmenter loaded from the current custom words      *)
(* gives.                                                                  *)
C30_SegmenterUsesCurrentWords ==
    SpacelessExpandDone =>
        /\ segmenter.words = matcher.words
        /\ ret = expand_detailed(cfg, matcher, FreshSegmenter, call.text, TRUE)

(* A spaceless expand made after add_words on an Expander whose segmenter  *)
(* had loaded before the words were added, with a report that differs from *)
(* the one the current custom words give.                                  *)
C30_Witness ==
    /\ SpacelessExpandDone
    /\ custom_words # <<>>
    /\ segmenter.words = get_words
    /\ matcher.words # get_words
    /\ ret # expand_detailed(cfg, matcher, FreshSegmenter, call.text, TRUE)

====
